---- MODULE Spec2Model ----
(***************************************************************************)
(* Activity Processing Core of ai-running-coach: the Strava token          *)
(* lifecycle, the webhook intake, the RQ job queue with its workers, the   *)
(* activity upsert and the Processing Orchestrator, as a state machine.    *)
(*                                                                         *)
(* Processes: the workers (app/worker.py, one RQ Worker each), the web     *)
(* application handling a webhook POST (app/api/webhooks.py) and one API   *)
(* request at a time (app/api/activities.py).  Every database round trip   *)
(* and every provider call is a step of its own; statements that touch     *)
(* only the process's own session objects are folded into the next step.   *)
(***************************************************************************)
EXTENDS Integers, Sequences, FiniteSets, TLC

VARIABLES
    now,         \* time.time(), in seconds
    account,     \* the strava_accounts row of the linked athlete
    issued,      \* token bundles the provider has issued so far
    posts,       \* refresh-grant POSTs the provider has received
    queue,       \* the RQ list 'default': job ids in arrival order
    jobs,        \* the RQ job hashes, by job id
    exec,        \* how often sync_activity_job was started, by job id
    webhooks,    \* webhook POSTs received so far
    resp,        \* what the last webhook POST answered
    activities,  \* the activities table: a set of rows
    nextId,      \* the next primary key generate_uuid hands out
    metrics,     \* the derived_metrics table: a set of rows
    pc,          \* each worker's position in sync_activity_job
    job,         \* each worker's current job id
    sess,        \* each worker's session copy of the account row
    data,        \* each worker's refresh response (response.json())
    tok,         \* each worker's access token as returned by ensure_valid_token
    raw,         \* each worker's payload from get_activity
    existing,    \* each worker's row found by upsert_activity's select
    apiPc,       \* the API request's position
    apiCalls,    \* API requests served so far
    apiAct,      \* the API request's activity id (primary key)
    apiLoad,     \* what process_activity loaded: activity, history, context
    apiReq,      \* the API request's body
    apiResp,     \* the status the last API request was answered with
    streams,     \* the activity_streams table: a set of rows
    checkins,    \* the check_ins table: a set of rows
    syncPc,      \* the manual sync's position in sync_recent_activities
    syncs,       \* manual syncs started so far
    syncPage,    \* raw_activities: the page the list endpoint answered with
    syncPos,     \* the index of the page's activity being handled
    syncFlushed, \* the Activity row the sync's session flushed, not yet committed
    syncErrors,  \* stats.errors of the manual sync
    fnIn,        \* the arguments of the function called on its own
    fnOut        \* what that call returned

syncVars == << syncPc, syncs, syncPage, syncPos, syncFlushed, syncErrors >>
fnVars == << fnIn, fnOut >>

vars == << now, account, issued, posts, queue, jobs, exec, webhooks, resp,
           activities, nextId, metrics, pc, job, sess, data, tok, raw,
           existing, apiPc, apiCalls, apiAct, apiLoad, apiReq, apiResp,
           streams, checkins, syncVars, fnVars >>

----------------------------------------------------------------------------
(* Bounds of the model *)

MaxNow == 2
MaxActivity == 2
MaxEventTime == 2
MaxVariant == 2
MaxWebhooks == 2
MaxApiCalls == 2
MaxSyncs == 2
MaxFlags == 2
MaxBlocks == 5
TokenLife == 62

(* Program constants *)

REFRESH_BUFFER == 60
RESULT_TTL == 3600
HISTORY_LIMIT == 20
CONTEXT_DAYS == 7

\* flags.py:48  history_metrics[:7]
RECENT_LIMIT == 7

Workers == {"w1", "w2"}
Athletes == {"linked", "unknown"}
ActivityIds == 1..MaxActivity
EventTimes == 1..MaxEventTime
Variants == 1..MaxVariant
Intents == {"Tempo", ""}

None == "None"
UserId == "u1"

----------------------------------------------------------------------------
(* The provider (Strava): token bundles and activity payloads *)

AccessTok(k) == << "access", k >>
RefreshTok(k) == << "refresh", k >>
NoToken == << >>

\* The JSON of a successful refresh grant: the k-th bundle, issued at time t.
TokenBundle(k, t) ==
    [access_token |-> AccessTok(k), refresh_token |-> RefreshTok(k),
     expires_at |-> t + TokenLife]

\* The document the provider holds for activity id in the variant v of its
\* content (an edit at the provider changes the variant).  Activity 1 is a
\* run recorded with a heart-rate strap, every other activity a ride recorded
\* without one; {} stands for a key the document does not have.
DocumentOf(id, v) ==
    [id |-> id, v |-> v,
     type |-> IF id = 1 THEN "Run" ELSE "Ride",
     sport_type |-> IF id = 1 THEN "Run" ELSE "Ride",
     trainer |-> FALSE,
     average_heartrate |-> IF id = 1 THEN {150} ELSE {},
     max_heartrate |-> IF id = 1 THEN {180} ELSE {}]

\* The activity documents the provider can answer with, on the detail and on
\* the list endpoint.
RawPayloads == {DocumentOf(id, v) : id \in ActivityIds, v \in Variants}

\* raw["name"] and raw["start_date"] (a day number) of a payload.
RawName(rawp) == IF rawp.v = 1 THEN "Morning Run" ELSE "City RACE"
RawStartDate(rawp) == rawp.id + (rawp.v - 1) * 7

\* raw["distance"], raw["moving_time"], raw["total_elevation_gain"]: the same
\* in all documents, a flat and short outing.
RawDistance(rawp) == 5000
RawMovingTime(rawp) == 1800
RawElevationGain(rawp) == 10

----------------------------------------------------------------------------
(* Token Store: StravaClient.ensure_valid_token *)

\* A variant that treats the edge of the buffer as still fresh.
TokenFreshAtEdge(acct, t) == acct.expires_at >= t + REFRESH_BUFFER

\* client.py:46  strava_account.expires_at > time.time() + 60
TokenFresh(acct, t) == acct.expires_at > t + REFRESH_BUFFER

\* client.py:63-65  the three fields taken from the response
RefreshedAccount(acct, d) ==
    [acct EXCEPT !.access_token = d.access_token,
                 !.refresh_token = d.refresh_token,
                 !.expires_at = d.expires_at]

----------------------------------------------------------------------------
(* Activity Upsert: activity_service.upsert_activity *)

\* activity_service.py:52-67  the parsed fields
ActivityData(rawp, user_id) ==
    [user_id |-> user_id,
     strava_activity_id |-> rawp.id,
     name |-> RawName(rawp),
     type |-> rawp.type,
     start_date |-> RawStartDate(rawp),
     distance_m |-> RawDistance(rawp),
     moving_time_s |-> RawMovingTime(rawp),
     elev_gain_m |-> RawElevationGain(rawp),
     avg_hr |-> rawp.average_heartrate,
     max_hr |-> rawp.max_heartrate,
     raw_summary |-> rawp]

\* Activity(**activity_data): the column defaults fill the rest
NewActivity(d, id) ==
    [id |-> id, user_id |-> d.user_id,
     strava_activity_id |-> d.strava_activity_id, name |-> d.name,
     type |-> d.type, start_date |-> d.start_date,
     distance_m |-> d.distance_m, moving_time_s |-> d.moving_time_s,
     elev_gain_m |-> d.elev_gain_m, avg_hr |-> d.avg_hr, max_hr |-> d.max_hr,
     raw_summary |-> d.raw_summary,
     user_intent |-> None, is_deleted |-> FALSE]

\* A variant that writes the whole row anew, the column defaults included.
OverwriteActivityAnew(row, ex, d) ==
    [NewActivity(d, row.id) EXCEPT !.user_intent = row.user_intent]

\* for key, value in activity_data.items(): setattr(existing, key, value),
\* flushed: the UPDATE sets the columns whose value differs from the one the
\* session loaded (ex); the others stay as the row has them now.
OverwriteActivity(row, ex, d) ==
    [row EXCEPT !.user_id = IF d.user_id # ex.user_id THEN d.user_id ELSE @,
                !.strava_activity_id = IF d.strava_activity_id # ex.strava_activity_id
                                       THEN d.strava_activity_id ELSE @,
                !.name = IF d.name # ex.name THEN d.name ELSE @,
                !.type = IF d.type # ex.type THEN d.type ELSE @,
                !.start_date = IF d.start_date # ex.start_date THEN d.start_date ELSE @,
                !.distance_m = IF d.distance_m # ex.distance_m THEN d.distance_m ELSE @,
                !.moving_time_s = IF d.moving_time_s # ex.moving_time_s
                                  THEN d.moving_time_s ELSE @,
                !.elev_gain_m = IF d.elev_gain_m # ex.elev_gain_m
                                THEN d.elev_gain_m ELSE @,
                !.avg_hr = IF d.avg_hr # ex.avg_hr THEN d.avg_hr ELSE @,
                !.max_hr = IF d.max_hr # ex.max_hr THEN d.max_hr ELSE @,
                !.raw_summary = IF d.raw_summary # ex.raw_summary
                                THEN d.raw_summary ELSE @]

\* A variant that looks the payload's id up in the primary key column.
UpsertSelectByPk(acts, rawp) ==
    IF \E r \in acts : r.id = rawp.id
    THEN {CHOOSE r \in acts : r.id = rawp.id}
    ELSE {}

\* select(Activity).where(strava_activity_id == raw["id"]) ... .first():
\* the row found, {} when there is none
UpsertSelect(acts, rawp) ==
    IF \E r \in acts : r.strava_activity_id = rawp.id
    THEN {CHOOSE r \in acts : r.strava_activity_id = rawp.id}
    ELSE {}

\* strava_activity_id is unique=True: the INSERT of a second row is refused
UniqueStravaId(acts, sid) == ~ \E r \in acts : r.strava_activity_id = sid

\* The flush of what upsert_activity did to the session: an UPDATE of the
\* row found, or an INSERT, which raises IntegrityError on a duplicate.
UpsertFlush(acts, nid, ex, rawp, user_id) ==
    LET d == ActivityData(rawp, user_id) IN
    IF ex # {}
    THEN [ok |-> TRUE, nextId |-> nid,
          acts |-> {IF \E x \in ex : x.id = r.id
                    THEN OverwriteActivity(r, CHOOSE x \in ex : x.id = r.id, d)
                    ELSE r : r \in acts}]
    ELSE IF UniqueStravaId(acts, d.strava_activity_id)
         THEN [ok |-> TRUE, nextId |-> nid + 1,
               acts |-> acts \cup {NewActivity(d, nid)}]
         ELSE [ok |-> FALSE, nextId |-> nid, acts |-> acts]

\* upsert_activity followed by the flush, in one session
UpsertActivity(acts, nid, rawp, user_id) ==
    UpsertFlush(acts, nid, UpsertSelect(acts, rawp), rawp, user_id)

----------------------------------------------------------------------------
(* Strings whose characters matter are sequences of characters *)

\* str.lower() on the letters A..Z; every other character stays as it is.
AsciiLower ==
    [A |-> "a", B |-> "b", C |-> "c", D |-> "d", E |-> "e", F |-> "f",
     G |-> "g", H |-> "h", I |-> "i", J |-> "j", K |-> "k", L |-> "l",
     M |-> "m", N |-> "n", O |-> "o", P |-> "p", Q |-> "q", R |-> "r",
     S |-> "s", T |-> "t", U |-> "u", V |-> "v", W |-> "w", X |-> "x",
     Y |-> "y", Z |-> "z"]

Lower(s) ==
    [i \in DOMAIN s |-> IF s[i] \in DOMAIN AsciiLower THEN AsciiLower[s[i]] ELSE s[i]]

\* keyword in t
Contains(t, keyword) ==
    \E i \in 1..(Len(t) - Len(keyword) + 1) :
        SubSeq(t, i, i + Len(keyword) - 1) = keyword

----------------------------------------------------------------------------
(* Read-side queries *)

RECURSIVE LatestN(_, _)
\* order_by(start_date.desc()).limit(n)
LatestN(S, n) ==
    IF n = 0 \/ S = {} THEN {}
    ELSE LET m == CHOOSE r \in S : \A q \in S : q.start_date <= r.start_date
         IN {m} \cup LatestN(S \ {m}, n - 1)

\* engine.py:114-117  the history process_activity loads
History(acts, a) ==
    LatestN({r \in acts : r.user_id = a.user_id /\ r.start_date < a.start_date},
            HISTORY_LIMIT)

\* context.py:144-158  the rows _build_training_context counts
TrainingContextRows(acts, a) ==
    {r \in acts : /\ r.user_id = a.user_id
                  /\ r.start_date >= a.start_date - CONTEXT_DAYS
                  /\ r.start_date < a.start_date
                  /\ r.is_deleted = FALSE}

\* trends.py:189-201  start inclusive, end exclusive; {} stands for None
QueryActivityFacts(acts, start_date, end_date) ==
    {r \in acts : /\ r.is_deleted = FALSE
                  /\ \A d \in start_date : r.start_date >= d
                  /\ \A d \in end_date : r.start_date < d}

\* trends.py:203-205  the type filter of _query_activity_facts: types is {}
\* for None, otherwise {the list}; a type is the sequence of its characters
FilterTypes(facts, types) ==
    IF types = {} \/ types = {<< >>} THEN facts
    ELSE LET ts == CHOOSE l \in types : TRUE
             type_set == {Lower(ts[i]) : i \in DOMAIN ts}
         IN {f \in facts : Lower(f.type) \in type_set}

----------------------------------------------------------------------------
(* Trends Aggregator: services/trends.py.  A date is a day number, day 0 a  *)
(* Monday.                                                                  *)

\* trends.py:145-152  _RANGE_DAYS; {} stands for None
RangeDays(range_key) ==
    IF range_key = "7D" THEN {7}
    ELSE IF range_key = "30D" THEN {30}
    ELSE IF range_key = "3M" THEN {90}
    ELSE IF range_key = "6M" THEN {180}
    ELSE IF range_key = "1Y" THEN {365}
    ELSE {}

\* trends.py:155-160  _resolve_since: date.today() - timedelta(days=days)
ResolveSince(range_key, today) == {today - days : days \in RangeDays(range_key)}

\* date.weekday(): 0 for a Monday
Weekday(d) == d % 7

\* trends.py:274, 281, 285, 288  d - timedelta(days=d.weekday())
MondayOf(d) == d - Weekday(d)

\* trends.py:219-220, 223-233  build_activity_facts and build_daily_facts: the
\* local dates of the activities in the range, one daily fact per date
DailyDates(acts, range_key, today) ==
    {r.start_date : r \in QueryActivityFacts(acts, ResolveSince(range_key, today), {})}

RECURSIVE SortedDates(_)
\* sorted(buckets.values(), key=lambda w: w.week_start), as the list of keys
SortedDates(S) ==
    IF S = {} THEN << >>
    ELSE LET m == CHOOSE m \in S : \A d \in S : m <= d
         IN << m >> \o SortedDates(S \ {m})

\* trends.py:263-299  build_weekly_buckets, as the list of the buckets'
\* week_start: a bucket per week with a daily fact, and a bucket for every
\* week from start_monday to end_monday
BuildWeeklyBuckets(dates, range_key, today) ==
    LET end_monday == MondayOf(today)
        since == ResolveSince(range_key, today)
        start_monday ==
            IF since # {} THEN MondayOf(CHOOSE d \in since : TRUE)
            ELSE IF dates # {} THEN MondayOf(CHOOSE m \in dates : \A d \in dates : m <= d)
            ELSE end_monday
        walked == {c \in start_monday..end_monday : (c - start_monday) % 7 = 0}
    IN SortedDates({MondayOf(d) : d \in dates} \cup walked)

----------------------------------------------------------------------------
(* Classification: processing/classifier.py and analysis/classifier.py *)

\* name_lower = activity.name.lower(); "<keyword>" in name_lower, for the
\* names that occur: the keywords of the classifier the lowered name contains.
NameKeywords(name) ==
    IF name = "City RACE" THEN {"race"}
    ELSE IF name = "Track Workout" THEN {"workout"}
    ELSE IF name = "Hill Intervals" THEN {"hill", "interval"}
    ELSE IF name = "Hilly recovery" THEN {"hill", "recovery"}
    ELSE IF name = "Recovery Jog" THEN {"recovery"}
    ELSE {}

\* if x: for a string column that may be None
Falsy(x) == x \in {None, ""}

\* if x: for a numeric column; {} stands for None
Truthy(x) == \E n \in x : n # 0

RECURSIVE SumMovingTime(_)
\* sum(recent_durations)
SumMovingTime(S) ==
    IF S = {} THEN 0
    ELSE LET r == CHOOSE r \in S : TRUE
         IN r.moving_time_s + SumMovingTime(S \ {r})

\* classifier.py:44-48  moving_time_s > max(4500, avg_duration * 1.3), the
\* average taken over the history's activities with moving_time_s > 0
LongerThanThreshold(a, history) ==
    LET recent == {h \in history : h.moving_time_s > 0} IN
    /\ a.moving_time_s > 4500
    /\ recent # {} =>
          a.moving_time_s * 10 * Cardinality(recent) > 13 * SumMovingTime(recent)

\* classifier.py:53-65  gain_per_km > 20, or > 15 with avg_hr > 150
Hilly(a) ==
    /\ a.distance_m > 0
    /\ \/ a.elev_gain_m * 1000 > 20 * a.distance_m
       \/ /\ a.elev_gain_m * 1000 > 15 * a.distance_m
          /\ \E n \in a.avg_hr : n > 150

\* classifier.py:31-40  the first keyword rule that matches, "" for none
KeywordClass(name) ==
    IF "race" \in NameKeywords(name) THEN "Race"
    ELSE IF {"workout", "interval"} \cap NameKeywords(name) # {} THEN "Intervals"
    ELSE IF "hill" \in NameKeywords(name) THEN "Hills"
    ELSE IF "recovery" \in NameKeywords(name) THEN "Recovery"
    ELSE ""

\* classifier.py:16  raw.get("sport_type") or activity.type or "Run"
SportType(a) ==
    IF ~ Falsy(a.raw_summary.sport_type) THEN a.raw_summary.sport_type
    ELSE IF ~ Falsy(a.type) THEN a.type
    ELSE "Run"

\* processing/classifier.py:4-78  classify_activity of the orchestrator
ClassifyActivity(a, history) ==
    IF ~ Falsy(a.user_intent) THEN a.user_intent
    ELSE IF a.raw_summary.trainer /\ SportType(a) = "Ride" THEN "Indoor Ride"
    ELSE IF a.raw_summary.trainer /\ SportType(a) = "Run" THEN "Treadmill"
    ELSE IF SportType(a) = "Ride" /\ a.distance_m = 0 /\ a.moving_time_s > 60
         THEN "Indoor Ride"
    ELSE IF Falsy(a.name) THEN "Easy Run"
    ELSE IF KeywordClass(a.name) # "" THEN KeywordClass(a.name)
    ELSE IF LongerThanThreshold(a, history) THEN "Long Run"
    ELSE IF Hilly(a) THEN "Hills"
    ELSE IF SportType(a) = "Ride" THEN "Easy Ride"
    ELSE IF SportType(a) = "Walk" THEN "Leisure Walk"
    ELSE IF SportType(a) = "Swim" THEN "Endurance"
    ELSE IF SportType(a) \in {"Workout", "WeightTraining"} THEN "Strength"
    ELSE "Easy Run"

\* analysis/classifier.py:4-53  classify_activity of the manual sync's analysis
AnalysisClassifyActivity(a, history) ==
    IF ~ Falsy(a.user_intent) THEN a.user_intent
    ELSE IF Falsy(a.name) THEN "Easy Run"
    ELSE IF KeywordClass(a.name) # "" THEN KeywordClass(a.name)
    ELSE IF LongerThanThreshold(a, history) THEN "Long Run"
    ELSE IF Hilly(a) THEN "Hills"
    ELSE "Easy Run"

----------------------------------------------------------------------------
(* Derived metrics: processing/metrics.py, flags.py, risk.py, engine.py and  *)
(* their predecessors in analysis/                                          *)

\* The stream channels the metrics read, and what a channel's samples are
\* like: an even effort, a speed that fades against the heart rate, or a
\* series in which the device dropped samples (JSON null).
Channels == {"heartrate", "velocity_smooth"}
StreamData == {"steady", "fading", "nulls"}

\* {s.stream_type: s.data for s in streams}, as the set of its items
StreamsDict(strs, id) ==
    {[stream_type |-> r.stream_type, data |-> r.data] :
        r \in {x \in strs : x.activity_id = id}}

\* streams_dict.get(t): the data under key t, {} when the key is missing
StreamGet(sd, t) == {r.data : r \in {x \in sd : x.stream_type = t}}

\* metrics.py:20, 61, 91: a comparison with a null sample raises TypeError
ComputeRaises(sd) == \E r \in sd : r.data = "nulls"

\* metrics.py:74-110  calculate_hr_drift, in percent; {} stands for None
HrDrift(sd) ==
    IF StreamGet(sd, "heartrate") = {} \/ StreamGet(sd, "velocity_smooth") = {}
    THEN {}
    ELSE IF "fading" \in StreamGet(sd, "velocity_smooth") THEN {8} ELSE {0}

\* metrics.py:52-72  calculate_pace_variability, in percent
PaceVariability(sd) ==
    IF StreamGet(sd, "velocity_smooth") = {} THEN {}
    ELSE IF "fading" \in StreamGet(sd, "velocity_smooth") THEN {20} ELSE {0}

RECURSIVE Gcd(_, _)
Gcd(m, n) == IF n = 0 THEN m ELSE Gcd(n, m % n)

\* round(n / d): to the nearest integer, a tie to the even one
RoundDiv(n, d) ==
    LET q == n \div d
        r == n % d
    IN IF 2 * r < d THEN q
       ELSE IF 2 * r > d THEN q + 1
       ELSE IF q % 2 = 0 THEN q ELSE q + 1

\* metrics.py:184-198  calculate_effort_score, in tenths:
\* round(minutes * (avg_hr / max_hr) ** 3 * 10, 1), or round(minutes, 1)
EffortScore(a) ==
    IF Truthy(a.avg_hr) /\ Truthy(a.max_hr)
    THEN LET avg == CHOOSE n \in a.avg_hr : TRUE
             max == CHOOSE n \in a.max_hr : TRUE
             g == Gcd(avg, max)
             p == (avg \div g) * (avg \div g) * (avg \div g)
             q == (max \div g) * (max \div g) * (max \div g)
         IN RoundDiv(a.moving_time_s * 5 * p, 3 * q)
    ELSE RoundDiv(a.moving_time_s, 6)

\* flags.py:26-28 (and analysis/flags.py:23-24)  avg_hr / max_hr > 0.8
HighHeartRatio(a) ==
    /\ Truthy(a.avg_hr) /\ Truthy(a.max_hr)
    /\ \E x \in a.avg_hr : \E y \in a.max_hr : x * 10 > 8 * y

RECURSIVE SumEffort(_)
\* sum(recent_efforts)
SumEffort(rows) ==
    IF rows = << >> THEN 0 ELSE Head(rows).effort_score + SumEffort(Tail(rows))

\* history_metrics[:7]
FirstSeven(rows) ==
    SubSeq(rows, 1, IF Len(rows) > RECENT_LIMIT THEN RECENT_LIMIT ELSE Len(rows))

\* flags.py:45-55  current effort > 1.8 * mean effort of the first seven rows
\* of history_metrics; effort_score is not nullable, no row is left out
LoadSpike(effort, history_metrics) ==
    LET recent == FirstSeven(history_metrics) IN
    /\ recent # << >>
    /\ SumEffort(recent) > 0
    /\ effort # 0
    /\ effort * 10 * Len(recent) > 18 * SumEffort(recent)

RECURSIVE AllRows(_)
\* query.all() without order_by: the rows in an order the database chooses.
\* Used where at most RECENT_LIMIT rows are selected, so that the order does
\* not change what is computed from them.
AllRows(S) ==
    IF S = {} THEN << >>
    ELSE LET m == CHOOSE m \in S : TRUE IN << m >> \o AllRows(S \ {m})

\* check_in.<column> or <default>
OrElse(x, default) == IF Truthy(x) THEN CHOOSE n \in x : TRUE ELSE default

\* A variant with the strict comparison.
PainAbove(check_in, n) ==
    \E c \in check_in : \E x \in c.pain_score : x # 0 /\ x > n

\* flags.py:67-70  check_in.pain_score and check_in.pain_score >= n
PainAtLeast(check_in, n) ==
    \E c \in check_in : \E x \in c.pain_score : x # 0 /\ x >= n

\* processing/flags.py:5-72  generate_flags of the orchestrator
GenerateFlags(a, md, check_in, history_metrics) ==
    (IF ~ Truthy(a.avg_hr) THEN << "data_low_confidence_hr" >> ELSE << >>)
    \o (IF md.activity_class = "Easy Run" /\ HighHeartRatio(a)
        THEN << "intensity_mismatch" >> ELSE << >>)
    \o (IF \E x \in md.hr_drift : x > 5 THEN << "fatigue_possible" >> ELSE << >>)
    \o (IF (\E x \in md.pace_variability : x > 15) /\ md.activity_class = "Tempo"
        THEN << "pace_unstable" >> ELSE << >>)
    \o (IF LoadSpike(md.effort_score, history_metrics)
        THEN << "load_spike" >> ELSE << >>)
    \o (IF \E c \in check_in : /\ OrElse(c.rpe, 0) >= 8
                               /\ OrElse(c.sleep_quality, 10) <= 2
                               /\ OrElse(c.pain_score, 0) >= 5
        THEN << "illness_or_extreme_fatigue" >> ELSE << >>)
    \o (IF PainAtLeast(check_in, 4) THEN << "pain_reported" >> ELSE << >>)
    \o (IF PainAtLeast(check_in, 7) THEN << "pain_severe" >> ELSE << >>)

\* analysis/flags.py:4-41  generate_flags, and analysis/engine.py:29-48, 93
\* generate_flags_with_drift and list(set(base_flags + drift_flags)): the
\* set's elements, listed here in one order
AnalysisFlags(a, md, check_in) ==
    (IF ~ Truthy(a.avg_hr) THEN << "missing_heart_rate" >> ELSE << >>)
    \o (IF md.activity_class = "Easy Run" /\ HighHeartRatio(a)
        THEN << "intensity_too_high_for_easy" >> ELSE << >>)
    \o (IF \E x \in md.hr_drift : x # 0 /\ x > 5
        THEN << "cardiac_drift_high" >> ELSE << >>)
    \o (IF (\E x \in md.pace_variability : x # 0 /\ x > 15)
           /\ md.activity_class = "Tempo"
        THEN << "pace_unstable" >> ELSE << >>)
    \o (IF PainAtLeast(check_in, 4) THEN << "pain_reported" >> ELSE << >>)
    \o (IF PainAtLeast(check_in, 7) THEN << "pain_severe" >> ELSE << >>)

\* risk.py:14-20  FLAG_POINTS, 0 for a flag the table does not have
FlagPoints(flag) ==
    IF flag = "load_spike" THEN 3
    ELSE IF flag = "fatigue_possible" THEN 1
    ELSE IF flag = "pain_reported" THEN 2
    ELSE IF flag = "pain_severe" THEN 4
    ELSE IF flag = "illness_or_extreme_fatigue" THEN 4
    ELSE 0

RECURSIVE SumFlagPoints(_)
\* risk.py:37-41  the loop over the flags list
SumFlagPoints(flags) ==
    IF flags = << >> THEN 0
    ELSE FlagPoints(Head(flags)) + SumFlagPoints(Tail(flags))

\* risk.py:44-49  poor sleep with a high RPE; check_in is {} for None
PoorSleepHighRpe(check_in) ==
    \E c \in check_in : \E sleep \in c.sleep_quality : \E rpe \in c.rpe :
        sleep <= 2 /\ rpe >= 8

\* risk.py:52-57  two or more hard sessions, the last within three days
ConsecutiveHardSessions(training_context) ==
    \E t \in training_context :
        /\ t.hard_sessions_this_week >= 2
        /\ \E d \in t.days_since_last_hard : d <= 3

\* A variant in which 4 points are not yet red.
RiskLevelAbove(points) ==
    IF points > 4 THEN "red" ELSE IF points >= 2 THEN "amber" ELSE "green"

\* risk.py:60-65
RiskLevel(points) ==
    IF points >= 4 THEN "red" ELSE IF points >= 2 THEN "amber" ELSE "green"

\* risk.py:23-71  compute_risk_score
ComputeRiskScore(flags, check_in, training_context) ==
    LET points == SumFlagPoints(flags)
                  + (IF PoorSleepHighRpe(check_in) THEN 2 ELSE 0)
                  + (IF ConsecutiveHardSessions(training_context) THEN 1 ELSE 0)
    IN [risk_level |-> RiskLevel(points), risk_score |-> points]

\* context.py:20  HARD_CLASSES
HARD_CLASSES == {"Intervals", "Tempo", "Race", "Hills"}

\* context.py:160-185  the counts of _build_training_context over the rows
\* it selected: a row without metrics counts as an Easy Run
BuildTrainingContext(recent, ms, a) ==
    LET hard == {r \in recent :
                    \E m \in ms : m.activity_id = r.id
                                  /\ m.activity_class \in HARD_CLASSES}
    IN [hard_sessions_this_week |-> Cardinality(hard),
        days_since_last_hard |->
            IF hard = {} THEN {}
            ELSE {a.start_date -
                  (CHOOSE r \in hard : \A q \in hard : q.start_date <= r.start_date)
                      .start_date}]

RECURSIVE AppendNew(_, _)
\* engine.py:68-70  for r in match_reasons: if r not in reasons: append
AppendNew(reasons, match_reasons) ==
    IF match_reasons = << >> THEN reasons
    ELSE AppendNew(IF \E i \in DOMAIN reasons : reasons[i] = Head(match_reasons)
                   THEN reasons ELSE Append(reasons, Head(match_reasons)),
                   Tail(match_reasons))

\* engine.py:52-84  the reasons of compute_confidence; interval_structure and
\* workout_match are {} for None, match_score is in hundredths
ComputeConfidenceReasons(a, sd, check_in, interval_structure, workout_match) ==
    LET base ==
            (IF ~ Truthy(a.avg_hr) THEN << "no_heart_rate_data" >> ELSE << >>)
            \o (IF sd = {} THEN << "no_stream_data" >>
                ELSE IF StreamGet(sd, "latlng") = {} THEN << "no_gps_data" >>
                ELSE << >>)
            \o (IF check_in = {} THEN << "no_user_checkin" >> ELSE << >>)
        matched ==
            IF workout_match = {} THEN base
            ELSE LET wm == CHOOSE wm \in workout_match : TRUE
                 IN AppendNew(base, wm.confidence_reasons)
                    \o (IF \E match_score \in wm.match_score : match_score < 70
                        THEN << "interval_structure_mismatch" >> ELSE << >>)
    IN IF interval_structure = {} THEN matched
       ELSE LET is == CHOOSE is \in interval_structure : TRUE
            IN matched
               \o (IF is.summary.total_work_time_s > 2700
                   THEN << "work_time_implausibly_high" >> ELSE << >>)
               \o (IF ~ Truthy(is.warmup_duration_s)
                   THEN << "no_warmup_detected" >> ELSE << >>)

\* engine.py:137-143 and workout_matching.py:38-40: no interval structure is
\* detected for a class other than Intervals, and workout_match then carries
\* the reason no_intervals_detected and no match_score
ConfidenceReasons(a, sd, check_in) ==
    ComputeConfidenceReasons(a, sd, check_in, {},
        {[confidence_reasons |-> << "no_intervals_detected" >>, match_score |-> {}]})

\* A variant in which one or two reasons outside the critical set leave the
\* level high.
ConfidenceLevelLenient(reasons) ==
    LET critical == {"no_heart_rate_data", "no_stream_data",
                     "interval_structure_mismatch", "work_time_implausibly_high",
                     "high_rep_distance_variability"}
        hits == critical \cap {reasons[i] : i \in DOMAIN reasons}
    IN IF Cardinality(hits) >= 2 THEN "low"
       ELSE IF Cardinality(hits) >= 1 \/ Len(reasons) >= 3 THEN "medium"
       ELSE "high"

\* engine.py:86-97  the level from the reasons
ConfidenceLevel(reasons) ==
    LET critical == {"no_heart_rate_data", "no_stream_data",
                     "interval_structure_mismatch", "work_time_implausibly_high",
                     "high_rep_distance_variability"}
        hits == critical \cap {reasons[i] : i \in DOMAIN reasons}
    IN IF Cardinality(hits) >= 2 THEN "low"
       ELSE IF Cardinality(hits) >= 1 \/ Len(reasons) >= 3 THEN "medium"
       ELSE IF Len(reasons) = 0 THEN "high"
       ELSE "medium"

\* engine.py:46-99  compute_confidence
ComputeConfidence(a, sd, check_in, interval_structure, workout_match) ==
    LET reasons == ComputeConfidenceReasons(a, sd, check_in, interval_structure,
                                            workout_match)
    IN [level |-> ConfidenceLevel(reasons), reasons |-> reasons]

----------------------------------------------------------------------------
(* Job Queue: the RQ queue 'default' and its job hashes *)

\* webhooks.py:63  f"sync_{event.object_id}_{event.event_time}"
JobId(object_id, event_time) == << "sync", object_id, event_time >>
JobActivity(j) == j[2]
JobIds == {JobId(a, t) : a \in ActivityIds, t \in EventTimes}
NoJob == [athlete |-> "none", activity |-> 0, result_ttl |-> 0, status |-> "none"]

\* queue.enqueue(...): RQ writes the job hash under the given id (replacing a
\* hash of the same id) and pushes the id to the right of the queue's list.
EnqueueHash(js, j, athlete, activity, ttl) ==
    [js EXCEPT ![j] = [athlete |-> athlete, activity |-> activity,
                        result_ttl |-> ttl, status |-> "queued"]]
EnqueueList(q, j) == Append(q, j)

SetStatus(js, j, st) == [js EXCEPT ![j].status = st]

----------------------------------------------------------------------------
(* Webhook intake: receive_webhook *)

Events ==
    [object_type : {"activity", "athlete"},
     aspect_type : {"create", "update", "delete", "other"},
     object_id : ActivityIds, owner_id : Athletes, event_time : EventTimes]

\* A variant that enqueues on create only.
DispatchCreateOnly(e) ==
    IF e.object_type # "activity" THEN "not_activity"
    ELSE IF e.aspect_type = "delete" THEN "delete"
    ELSE IF e.aspect_type = "create" THEN "enqueue"
    ELSE "unknown_aspect"

\* webhooks.py:47-75  the branch an event takes
Dispatch(e) ==
    IF e.object_type # "activity" THEN "not_activity"
    ELSE IF e.aspect_type = "delete" THEN "delete"
    ELSE IF e.aspect_type \in {"create", "update"} THEN "enqueue"
    ELSE "unknown_aspect"

\* webhooks.py:53-55  update(Activity).where(strava_activity_id == id).values(is_deleted=True)
SoftDelete(acts, object_id) ==
    {IF r.strava_activity_id = object_id THEN [r EXCEPT !.is_deleted = TRUE] ELSE r
        : r \in acts}

\* One POST /webhooks/strava.  The database and the broker are reached over
\* the network: the statement either succeeds or raises (ok = FALSE), and
\* the handler has no try/except, so the exception leaves the handler.
ReceiveWebhook(e, ok) ==
    /\ webhooks < MaxWebhooks
    /\ webhooks' = webhooks + 1
    /\ IF Dispatch(e) = "delete" /\ ok
       THEN /\ activities' = SoftDelete(activities, e.object_id)
            /\ resp' = "processed:deleted"
            /\ UNCHANGED << queue, jobs >>
       ELSE IF Dispatch(e) = "enqueue" /\ ok
       THEN /\ jobs' = EnqueueHash(jobs, JobId(e.object_id, e.event_time),
                                   e.owner_id, e.object_id, RESULT_TTL)
            /\ queue' = EnqueueList(queue, JobId(e.object_id, e.event_time))
            /\ resp' = "processed:enqueued"
            /\ UNCHANGED activities
       ELSE /\ resp' = IF Dispatch(e) = "not_activity" THEN "ignored:not_activity"
                       ELSE IF Dispatch(e) = "unknown_aspect"
                            THEN "ignored:unknown_aspect"
                            ELSE "raised"
            /\ UNCHANGED << activities, queue, jobs >>
    /\ UNCHANGED << now, account, issued, posts, exec, nextId, metrics, pc, job,
                    sess, data, tok, raw, existing, apiPc, apiCalls, apiAct,
                    apiLoad >>
    /\ UNCHANGED << streams, checkins, apiReq, apiResp, syncVars, fnVars >>

----------------------------------------------------------------------------
(* Worker: sync_activity_job -> sync_activity_by_id *)

\* What a worker holds between jobs
Forget(w) ==
    /\ sess' = [sess EXCEPT ![w] = {}]
    /\ data' = [data EXCEPT ![w] = {}]
    /\ tok' = [tok EXCEPT ![w] = NoToken]
    /\ raw' = [raw EXCEPT ![w] = {}]
    /\ existing' = [existing EXCEPT ![w] = {}]

\* The exception leaves sync_activity_job: RQ marks the job failed and the
\* worker takes the next one.
JobFails(w) ==
    /\ jobs' = SetStatus(jobs, job[w], "failed")
    /\ pc' = [pc EXCEPT ![w] = "idle"]
    /\ Forget(w)

\* worker.py:12 and strava_sync.py:30-37: the worker pops the next job id,
\* runs sync_activity_job, which selects the account of the athlete.
SyncActivityJob_Start(w) ==
    /\ pc[w] = "idle"
    /\ queue # << >>
    /\ LET j == Head(queue) IN
         /\ queue' = Tail(queue)
         /\ job' = [job EXCEPT ![w] = j]
         /\ exec' = [exec EXCEPT ![j] = @ + 1]
         /\ IF jobs[j].athlete = "linked"
            THEN /\ sess' = [sess EXCEPT ![w] = {account}]
                 /\ pc' = [pc EXCEPT ![w] = "token"]
                 /\ jobs' = SetStatus(jobs, j, "started")
            ELSE /\ jobs' = SetStatus(jobs, j, "finished")
                 /\ UNCHANGED << sess, pc >>
    /\ UNCHANGED << now, account, issued, posts, webhooks, resp, activities,
                    nextId, metrics, data, tok, raw, existing, apiPc, apiCalls,
                    apiAct, apiLoad >>
    /\ UNCHANGED << streams, checkins, apiReq, apiResp, syncVars, fnVars >>

\* client.py:46-56: the expiry test on the session's object, then either the
\* return of the stored token or the refresh-grant POST.
EnsureValidToken_Check(w) ==
    /\ pc[w] = "token"
    /\ \E acct \in sess[w] :
         IF TokenFresh(acct, now)
         THEN /\ tok' = [tok EXCEPT ![w] = acct.access_token]
              /\ pc' = [pc EXCEPT ![w] = "fetch"]
              /\ UNCHANGED posts
         ELSE /\ posts' = posts + 1
              /\ pc' = [pc EXCEPT ![w] = "refreshing"]
              /\ UNCHANGED tok
    /\ UNCHANGED << now, account, issued, queue, jobs, exec, webhooks, resp,
                    activities, nextId, metrics, job, sess, data, raw, existing,
                    apiPc, apiCalls, apiAct, apiLoad >>
    /\ UNCHANGED << streams, checkins, apiReq, apiResp, syncVars, fnVars >>

\* client.py:59-60: the provider answers the POST with a new bundle ...
EnsureValidToken_Response(w) ==
    /\ pc[w] = "refreshing"
    /\ issued' = issued + 1
    /\ data' = [data EXCEPT ![w] = {TokenBundle(issued + 1, now)}]
    /\ pc' = [pc EXCEPT ![w] = "store"]
    /\ UNCHANGED << now, account, posts, queue, jobs, exec, webhooks, resp,
                    activities, nextId, metrics, job, sess, tok, raw, existing,
                    apiPc, apiCalls, apiAct, apiLoad >>
    /\ UNCHANGED << streams, checkins, apiReq, apiResp, syncVars, fnVars >>

\* A variant that swallows the failure and starts the call over.
EnsureValidToken_Retry(w) ==
    /\ pc[w] = "refreshing"
    /\ pc' = [pc EXCEPT ![w] = "token"]
    /\ UNCHANGED << now, account, issued, posts, queue, jobs, exec, webhooks,
                    resp, activities, nextId, metrics, job, sess, data, tok, raw,
                    existing, apiPc, apiCalls, apiAct, apiLoad >>
    /\ UNCHANGED << streams, checkins, apiReq, apiResp, syncVars, fnVars >>

\* ... or with an error status (or not at all): raise_for_status raises.
EnsureValidToken_Raise(w) ==
    /\ pc[w] = "refreshing"
    /\ JobFails(w)
    /\ UNCHANGED << now, account, issued, posts, queue, exec, webhooks, resp,
                    activities, nextId, metrics, job, apiPc, apiCalls, apiAct,
                    apiLoad >>
    /\ UNCHANGED << streams, checkins, apiReq, apiResp, syncVars, fnVars >>

\* client.py:63-68: the fields are set on the object and committed.
EnsureValidToken_Commit(w) ==
    /\ pc[w] = "store"
    /\ \E acct \in sess[w] : \E d \in data[w] :
         /\ sess' = [sess EXCEPT ![w] = {RefreshedAccount(acct, d)}]
         /\ account' = RefreshedAccount(account, d)
    /\ pc' = [pc EXCEPT ![w] = "reread"]
    /\ UNCHANGED << now, issued, posts, queue, jobs, exec, webhooks, resp,
                    activities, nextId, metrics, job, data, tok, raw, existing,
                    apiPc, apiCalls, apiAct, apiLoad >>
    /\ UNCHANGED << streams, checkins, apiReq, apiResp, syncVars, fnVars >>

\* client.py:69-71: db.refresh reads the row again; its access_token is returned.
EnsureValidToken_Return(w) ==
    /\ pc[w] = "reread"
    /\ sess' = [sess EXCEPT ![w] = {account}]
    /\ tok' = [tok EXCEPT ![w] = account.access_token]
    /\ pc' = [pc EXCEPT ![w] = "fetch"]
    /\ UNCHANGED << now, account, issued, posts, queue, jobs, exec, webhooks,
                    resp, activities, nextId, metrics, job, data, raw, existing,
                    apiPc, apiCalls, apiAct, apiLoad >>
    /\ UNCHANGED << streams, checkins, apiReq, apiResp, syncVars, fnVars >>

\* activity_service.py:147 and client.py:114-125: get_activity answers with
\* the activity's current document ...
GetActivity(w, v) ==
    /\ pc[w] = "fetch"
    /\ raw' = [raw EXCEPT ![w] = {DocumentOf(JobActivity(job[w]), v)}]
    /\ pc' = [pc EXCEPT ![w] = "upsert"]
    /\ UNCHANGED << now, account, issued, posts, queue, jobs, exec, webhooks,
                    resp, activities, nextId, metrics, job, sess, data, tok,
                    existing, apiPc, apiCalls, apiAct, apiLoad >>
    /\ UNCHANGED << streams, checkins, apiReq, apiResp, syncVars, fnVars >>

\* ... or raise_for_status raises (404, 429, ...).
GetActivity_Raise(w) ==
    /\ pc[w] = "fetch"
    /\ JobFails(w)
    /\ UNCHANGED << now, account, issued, posts, queue, exec, webhooks, resp,
                    activities, nextId, metrics, job, apiPc, apiCalls, apiAct,
                    apiLoad >>
    /\ UNCHANGED << streams, checkins, apiReq, apiResp, syncVars, fnVars >>

\* activity_service.py:148 -> 48-49: upsert_activity's select.
UpsertActivity_Select(w) ==
    /\ pc[w] = "upsert"
    /\ \E rawp \in raw[w] :
         existing' = [existing EXCEPT ![w] = UpsertSelect(activities, rawp)]
    /\ pc' = [pc EXCEPT ![w] = "commit"]
    /\ UNCHANGED << now, account, issued, posts, queue, jobs, exec, webhooks,
                    resp, activities, nextId, metrics, job, sess, data, tok, raw,
                    apiPc, apiCalls, apiAct, apiLoad >>
    /\ UNCHANGED << streams, checkins, apiReq, apiResp, syncVars, fnVars >>

\* activity_service.py:69-77, 150-151: the row is updated or inserted and the
\* transaction committed; the job returns.  A refused INSERT raises.
UpsertActivity_Commit(w) ==
    /\ pc[w] = "commit"
    /\ \E rawp \in raw[w] :
         LET r == UpsertFlush(activities, nextId, existing[w], rawp, UserId) IN
           /\ activities' = r.acts
           /\ nextId' = r.nextId
           /\ jobs' = SetStatus(jobs, job[w], IF r.ok THEN "finished" ELSE "failed")
    /\ pc' = [pc EXCEPT ![w] = "idle"]
    /\ Forget(w)
    /\ UNCHANGED << now, account, issued, posts, queue, exec, webhooks, resp,
                    metrics, job, apiPc, apiCalls, apiAct, apiLoad >>
    /\ UNCHANGED << streams, checkins, apiReq, apiResp, syncVars, fnVars >>

----------------------------------------------------------------------------
(* API: PUT /activities/{id}/intent and POST /activities/{id}/checkin,     *)
(* each followed by process_activity                                       *)

NoLoad == [activity |-> {}, history |-> {}, context |-> {}, streams |-> {},
           check_in |-> {}, metrics |-> {}]

\* CheckInCreate: every field is optional; {} stands for a field the request
\* does not set
CheckInBodies ==
    [rpe : {{}, {8}}, pain_score : {{}, {3}, {4}, {7}}, sleep_quality : {{}, {2}}]
NoBody == [rpe |-> {}, pain_score |-> {}, sleep_quality |-> {}]
NoReq == [op |-> "none", user_intent |-> "", check_in |-> NoBody]

\* activities.py:40-49: the activity is selected, user_intent set, committed;
\* an id that selects nothing is answered with 404.
UpdateActivityIntent(id, intent) ==
    /\ apiPc = "idle"
    /\ apiCalls < MaxApiCalls
    /\ apiReq' = [op |-> "intent", user_intent |-> intent, check_in |-> NoBody]
    /\ apiCalls' = apiCalls + 1
    /\ IF \E r \in activities : r.id = id
       THEN /\ activities' = {IF r.id = id THEN [r EXCEPT !.user_intent = intent]
                              ELSE r : r \in activities}
            /\ apiAct' = id
            /\ apiResp' = 0
            /\ apiPc' = "process"
       ELSE /\ apiResp' = 404
            /\ UNCHANGED << activities, apiAct, apiPc >>
    /\ UNCHANGED << now, account, issued, posts, queue, jobs, exec, webhooks,
                    resp, nextId, metrics, pc, job, sess, data, tok, raw,
                    existing, apiLoad >>
    /\ UNCHANGED << streams, checkins, syncVars, fnVars >>

\* activities.py:135-136  setattr for the fields the request sets
OverwriteCheckIn(row, body) ==
    [row EXCEPT !.rpe = IF body.rpe # {} THEN body.rpe ELSE @,
                !.pain_score = IF body.pain_score # {} THEN body.pain_score ELSE @,
                !.sleep_quality = IF body.sleep_quality # {}
                                  THEN body.sleep_quality ELSE @]

\* activities.py:133-143  the check-in of the activity is updated or inserted
UpsertCheckIn(chks, id, body) ==
    IF \E c \in chks : c.activity_id = id
    THEN {IF c.activity_id = id THEN OverwriteCheckIn(c, body) ELSE c : c \in chks}
    ELSE chks \cup {[activity_id |-> id, rpe |-> body.rpe,
                     pain_score |-> body.pain_score,
                     sleep_quality |-> body.sleep_quality]}

\* models/checkin.py:18  activity_id is a foreign key to activities.id: the
\* database refuses a check-in whose activity is not there.
CheckInForeignKey(chks, acts) ==
    \A c \in chks : \E r \in acts : r.id = c.activity_id

\* activities.py:126-143: the check-in is upserted and committed.  The
\* handler does not look for the activity: with an id that selects nothing
\* the insert breaks the foreign key, commit raises and the request is
\* answered with 500.
CreateCheckin(id, body) ==
    /\ apiPc = "idle"
    /\ apiCalls < MaxApiCalls
    /\ apiReq' = [op |-> "checkin", user_intent |-> "", check_in |-> body]
    /\ apiCalls' = apiCalls + 1
    /\ IF CheckInForeignKey(UpsertCheckIn(checkins, id, body), activities)
       THEN /\ checkins' = UpsertCheckIn(checkins, id, body)
            /\ apiAct' = id
            /\ apiResp' = 0
            /\ apiPc' = "process"
       ELSE /\ apiResp' = 500
            /\ UNCHANGED << checkins, apiAct, apiPc >>
    /\ UNCHANGED << now, account, issued, posts, queue, jobs, exec, webhooks,
                    resp, activities, nextId, metrics, pc, job, sess, data, tok,
                    raw, existing, apiLoad >>
    /\ UNCHANGED << streams, syncVars, fnVars >>

\* engine.py:107-130, 162-167 and context.py:144-158: process_activity loads
\* the activity, its history, its streams and check-in, and the metrics of
\* the history and of the training context.
ProcessActivity_Load ==
    /\ apiPc = "process"
    /\ \E a \in activities :
         /\ a.id = apiAct
         /\ apiLoad' = [activity |-> {a}, history |-> History(activities, a),
                        context |-> TrainingContextRows(activities, a),
                        streams |-> StreamsDict(streams, a.id),
                        check_in |-> {c \in checkins : c.activity_id = a.id},
                        metrics |-> metrics]
    /\ apiPc' = "store"
    /\ UNCHANGED << now, account, issued, posts, queue, jobs, exec, webhooks,
                    resp, activities, nextId, metrics, pc, job, sess, data, tok,
                    raw, existing, apiCalls, apiAct >>
    /\ UNCHANGED << streams, checkins, apiReq, apiResp, syncVars, fnVars >>

\* engine.py:133-196  metrics_data of process_activity, from what it loaded
ProcessedMetric(ld) ==
    LET a == CHOOSE a \in ld.activity : TRUE
        md == [activity_class |-> ClassifyActivity(a, ld.history),
               effort_score |-> EffortScore(a),
               hr_drift |-> HrDrift(ld.streams),
               pace_variability |-> PaceVariability(ld.streams)]
        history_metrics ==
            {m \in ld.metrics : \E h \in ld.history : h.id = m.activity_id}
        flags == GenerateFlags(a, md, ld.check_in, AllRows(history_metrics))
        check_in_data ==
            {[sleep_quality |-> IF ld.check_in = {} THEN {}
                                ELSE (CHOOSE c \in ld.check_in : TRUE).sleep_quality,
              rpe |-> IF ld.check_in = {} THEN {}
                      ELSE (CHOOSE c \in ld.check_in : TRUE).rpe]}
        risk == ComputeRiskScore(flags, check_in_data,
                                 {BuildTrainingContext(ld.context, ld.metrics, a)})
        reasons == ConfidenceReasons(a, ld.streams, ld.check_in)
    IN [activity_id |-> a.id,
        activity_class |-> md.activity_class,
        effort_score |-> md.effort_score,
        hr_drift |-> md.hr_drift,
        pace_variability |-> md.pace_variability,
        flags |-> flags,
        risk_level |-> risk.risk_level,
        risk_score |-> {risk.risk_score},
        confidence |-> ConfidenceLevel(reasons),
        confidence_reasons |-> reasons]

\* engine.py:133, 198-211: the metrics are computed (a null sample in a stream
\* raises, and the request is answered with 500) and the Derived Metric row
\* is rewritten or inserted and committed.
ProcessActivity_Commit ==
    /\ apiPc = "store"
    /\ IF ComputeRaises(apiLoad.streams)
       THEN /\ apiResp' = 500
            /\ UNCHANGED metrics
       ELSE /\ apiResp' = 200
            /\ metrics' = {m \in metrics :
                              \A a \in apiLoad.activity : m.activity_id # a.id}
                          \cup {ProcessedMetric(apiLoad)}
    /\ apiPc' = "idle"
    /\ apiAct' = 0
    /\ apiLoad' = NoLoad
    /\ UNCHANGED << now, account, issued, posts, queue, jobs, exec, webhooks,
                    resp, activities, nextId, pc, job, sess, data, tok, raw,
                    existing, apiCalls >>
    /\ UNCHANGED << streams, checkins, apiReq, syncVars, fnVars >>

\* activities.py:101-110  the lazy repair of read_activity: a stored class
\* Easy Run is replaced by what classify_activity gives with an empty history
RepairedMetric(m, a) ==
    IF m.activity_class = "Easy Run" /\ ClassifyActivity(a, {}) # "Easy Run"
    THEN [m EXCEPT !.activity_class = ClassifyActivity(a, {})]
    ELSE m

\* activities.py:91-124  GET /activities/{id}: the activity is selected with
\* its metrics (404 when there is none), the class repaired and committed,
\* the splits computed for the response only.
ReadActivity(id) ==
    /\ apiPc = "idle"
    /\ apiCalls < MaxApiCalls
    /\ apiReq' = [op |-> "read", user_intent |-> "", check_in |-> NoBody]
    /\ apiCalls' = apiCalls + 1
    /\ IF \E a \in activities : a.id = id
       THEN LET a == CHOOSE a \in activities : a.id = id
            IN /\ metrics' = {IF m.activity_id = id THEN RepairedMetric(m, a) ELSE m
                                 : m \in metrics}
               /\ apiResp' = 200
       ELSE /\ apiResp' = 404
            /\ UNCHANGED metrics
    /\ UNCHANGED << now, account, issued, posts, queue, jobs, exec, webhooks,
                    resp, activities, nextId, pc, job, sess, data, tok, raw,
                    existing, apiPc, apiAct, apiLoad >>
    /\ UNCHANGED << streams, checkins, syncVars, fnVars >>

----------------------------------------------------------------------------
(* Manual sync: POST /sync -> sync_recent_activities *)

RECURSIVE PageOf(_, _)
\* The page the list endpoint answers with when it has the activities a with
\* f[a] # 0, each in the variant f[a], oldest first.
PageOf(f, a) ==
    IF a > MaxActivity THEN << >>
    ELSE (IF f[a] = 0 THEN << >> ELSE << DocumentOf(a, f[a]) >>) \o PageOf(f, a + 1)

\* What get_activity_streams can come back with: the JSON object of a 200
\* (possibly empty), None after a 429 or another error status
\* (client.py:143-152), or an exception that is no HTTPStatusError (a
\* timeout, a refused connection).
StreamResponses ==
    {[status |-> "ok", items |-> {}],
     [status |-> "ok", items |-> {[stream_type |-> "heartrate", data |-> "steady"]}],
     [status |-> "ok", items |-> {[stream_type |-> "heartrate", data |-> "steady"],
                                  [stream_type |-> "velocity_smooth", data |-> "fading"]}],
     [status |-> "ok", items |-> {[stream_type |-> "heartrate", data |-> "nulls"]}],
     [status |-> "rate_limited", items |-> {}],
     [status |-> "error", items |-> {}],
     [status |-> "raise", items |-> {}]}

\* activity_service.py:130  f"Error processing activity {raw.get('id')}: ..."
ActivityError(id) == [scope |-> "activity", id |-> id]
\* activity_service.py:135  f"Sync failed globally: ..."
GlobalError == [scope |-> "global", id |-> 0]

\* What the sync's session sees of the activities table: the committed rows
\* and the row it flushed.  The flushed UPDATE names the columns upsert_activity
\* sets; user_intent and is_deleted are the committed row's.
SessionActivities ==
    {r \in activities : \A x \in syncFlushed : x.id # r.id}
    \cup {IF \E r \in activities : r.id = x.id
          THEN LET r == CHOOSE r \in activities : r.id = x.id
               IN [x EXCEPT !.user_intent = r.user_intent,
                            !.is_deleted = r.is_deleted]
          ELSE x : x \in syncFlushed}

\* The activity object the loop body holds: the row of the page entry.
SyncActivity ==
    CHOOSE r \in SessionActivities :
        r.strava_activity_id = syncPage[syncPos].id

RECURSIVE NewStreams(_, _, _)
\* activity_service.py:32-39  one ActivityStream per item of streams_data
NewStreams(items, activity_id, nid) ==
    IF items = {} THEN {}
    ELSE LET i == CHOOSE i \in items : TRUE
         IN {[id |-> nid, activity_id |-> activity_id,
              stream_type |-> i.stream_type, data |-> i.data]}
            \cup NewStreams(items \ {i}, activity_id, nid + 1)

\* A variant that adds the new rows without deleting the stored ones.
StoreStreamsKeeping(strs, activity_id, items, nid) ==
    strs \cup NewStreams(items, activity_id, nid)

\* activity_service.py:30-39  delete the activity's rows, add the new ones
StoreStreams(strs, activity_id, items, nid) ==
    {r \in strs : r.activity_id # activity_id}
    \cup NewStreams(items, activity_id, nid)

\* analysis/engine.py:82-99  metrics_data of run_analysis; the risk columns
\* are not among its keys
AnalysisMetric(a, history, sd, check_in) ==
    LET md == [activity_class |-> AnalysisClassifyActivity(a, history),
               effort_score |-> EffortScore(a),
               hr_drift |-> HrDrift(sd),
               pace_variability |-> PaceVariability(sd)]
    IN [activity_id |-> a.id,
        activity_class |-> md.activity_class,
        effort_score |-> md.effort_score,
        hr_drift |-> md.hr_drift,
        pace_variability |-> md.pace_variability,
        flags |-> AnalysisFlags(a, md, check_in),
        risk_level |-> None,
        risk_score |-> {},
        confidence |-> IF Truthy(a.avg_hr) THEN "high" ELSE "medium",
        confidence_reasons |-> << >>]

\* client.py:46-68 inside one step of the sync: a stale token is refreshed
\* and the session committed.
SyncTokenStale == ~ TokenFresh(account, now)
SyncEnsureValidToken ==
    /\ account' = IF SyncTokenStale
                  THEN RefreshedAccount(account, TokenBundle(issued + 1, now))
                  ELSE account
    /\ issued' = IF SyncTokenStale THEN issued + 1 ELSE issued
    /\ posts' = IF SyncTokenStale THEN posts + 1 ELSE posts

\* The loop moves on to the next entry of the page, or the sync returns.
SyncAdvance ==
    /\ syncPos' = syncPos + 1
    /\ syncPc' = IF syncPos = Len(syncPage) THEN "idle" ELSE "upsert"

\* activity_service.py:128-132  except Exception: rollback, one error string
SyncExcept ==
    /\ syncFlushed' = {}
    /\ syncErrors' = Append(syncErrors, ActivityError(syncPage[syncPos].id))
    /\ SyncAdvance

\* activity_service.py:84-100: the token, then the list endpoint's page.
SyncRecentActivities_Start(page) ==
    /\ syncPc = "idle"
    /\ syncs < MaxSyncs
    /\ syncs' = syncs + 1
    /\ SyncEnsureValidToken
    /\ syncPage' = page
    /\ syncPos' = 1
    /\ syncErrors' = << >>
    /\ syncPc' = IF page = << >> THEN "idle" ELSE "upsert"
    /\ UNCHANGED << now, queue, jobs, exec, webhooks, resp, activities, nextId,
                    metrics, pc, job, sess, data, tok, raw, existing, apiPc,
                    apiCalls, apiAct, apiLoad, apiReq, apiResp, streams,
                    checkins, syncFlushed, fnVars >>

\* activity_service.py:94-98, 134-137: the list endpoint answers with an
\* error status (429 among them) or not at all; get_athlete_activities
\* raises, and the sync returns with the one global error.
SyncRecentActivities_Raise ==
    /\ syncPc = "idle"
    /\ syncs < MaxSyncs
    /\ syncs' = syncs + 1
    /\ SyncEnsureValidToken
    /\ syncPage' = << >>
    /\ syncPos' = 1
    /\ syncErrors' = << GlobalError >>
    /\ UNCHANGED << now, queue, jobs, exec, webhooks, resp, activities, nextId,
                    metrics, pc, job, sess, data, tok, raw, existing, apiPc,
                    apiCalls, apiAct, apiLoad, apiReq, apiResp, streams,
                    checkins, syncPc, syncFlushed, fnVars >>

\* activity_service.py:105-107: upsert_activity and the flush; a statement
\* the database refuses (ok = FALSE) raises.
Sync_Upsert(ok) ==
    /\ syncPc = "upsert"
    /\ LET r == UpsertActivity(activities, nextId, syncPage[syncPos], UserId) IN
         IF ok /\ r.ok
         THEN /\ syncFlushed' = {x \in r.acts :
                                    x.strava_activity_id = syncPage[syncPos].id}
              /\ nextId' = r.nextId
              /\ syncPc' = "streams"
              /\ UNCHANGED << syncPos, syncErrors >>
         ELSE /\ SyncExcept
              /\ UNCHANGED nextId
    /\ UNCHANGED << now, account, issued, posts, queue, jobs, exec, webhooks,
                    resp, activities, metrics, pc, job, sess, data, tok, raw,
                    existing, apiPc, apiCalls, apiAct, apiLoad, apiReq, apiResp,
                    streams, checkins, syncs, syncPage, fnVars >>

\* activity_service.py:110 -> 13-42: fetch_and_store_streams.  A response
\* with channels replaces the activity's rows and commits the session, the
\* flushed Activity row with it; no response or an empty one changes nothing.
Sync_FetchStreams(response) ==
    /\ syncPc = "streams"
    /\ SyncEnsureValidToken
    /\ IF response.status = "raise"
       THEN /\ SyncExcept
            /\ activities' = IF SyncTokenStale THEN SessionActivities ELSE activities
            /\ UNCHANGED << streams, nextId >>
       ELSE IF response.items = {}
       THEN /\ syncPc' = "analysis"
            /\ activities' = IF SyncTokenStale THEN SessionActivities ELSE activities
            /\ syncFlushed' = IF SyncTokenStale THEN {} ELSE syncFlushed
            /\ UNCHANGED << streams, nextId, syncPos, syncErrors >>
       ELSE /\ streams' = StoreStreams(streams, SyncActivity.id, response.items, nextId)
            /\ nextId' = nextId + Cardinality(response.items)
            /\ activities' = SessionActivities
            /\ syncFlushed' = {}
            /\ syncPc' = "analysis"
            /\ UNCHANGED << syncPos, syncErrors >>
    /\ UNCHANGED << now, queue, jobs, exec, webhooks, resp, metrics, pc, job,
                    sess, data, tok, raw, existing, apiPc, apiCalls, apiAct,
                    apiLoad, apiReq, apiResp, checkins, syncs, syncPage, fnVars >>

\* activity_service.py:118-126: the query for an existing Derived Metric,
\* run_analysis when there is none (analysis/engine.py:50-114, which commits),
\* and the commit per activity.  A null sample in a stream raises in
\* run_analysis, a refused statement (ok = FALSE) in the query.
Sync_Analysis(ok) ==
    /\ syncPc = "analysis"
    /\ LET a == SyncActivity
           sd == StreamsDict(streams, a.id)
       IN
         IF ~ ok \/ ((~ \E m \in metrics : m.activity_id = a.id) /\ ComputeRaises(sd))
         THEN /\ SyncExcept
              /\ UNCHANGED << activities, metrics >>
         ELSE /\ metrics' =
                    IF \E m \in metrics : m.activity_id = a.id THEN metrics
                    ELSE metrics \cup
                         {AnalysisMetric(a, History(SessionActivities, a), sd,
                                         {c \in checkins : c.activity_id = a.id})}
              /\ activities' = SessionActivities
              /\ syncFlushed' = {}
              /\ SyncAdvance
              /\ UNCHANGED syncErrors
    /\ UNCHANGED << now, account, issued, posts, queue, jobs, exec, webhooks,
                    resp, nextId, pc, job, sess, data, tok, raw, existing, apiPc,
                    apiCalls, apiAct, apiLoad, apiReq, apiResp, streams,
                    checkins, syncs, syncPage, fnVars >>

----------------------------------------------------------------------------
(* The clock *)

Tick ==
    /\ now < MaxNow
    /\ now' = now + 1
    /\ UNCHANGED << account, issued, posts, queue, jobs, exec, webhooks, resp,
                    activities, nextId, metrics, pc, job, sess, data, tok, raw,
                    existing, apiPc, apiCalls, apiAct, apiLoad >>
    /\ UNCHANGED << streams, checkins, apiReq, apiResp, syncVars, fnVars >>

----------------------------------------------------------------------------
(* Units: services/units/cadence.py.  A cadence is a whole number of steps  *)
(* (or strides) a minute.                                                   *)

run_intents ==
    << << "r", "u", "n" >>, << "j", "o", "g" >>,
       << "s", "p", "r", "i", "n", "t" >>, << "t", "e", "m", "p", "o" >>,
       << "i", "n", "t", "e", "r", "v", "a", "l", "s" >>,
       << "h", "i", "l", "l", "s" >>, << "r", "a", "c", "e" >>,
       << "f", "a", "r", "t", "l", "e", "k" >>, << "t", "r", "a", "c", "k" >> >>

\* "bike" in t or "ride" in t or "cycle" in t or "swim" in t or "walk" in t
\* or "hike" in t
IsBike(t) ==
    \/ Contains(t, << "b", "i", "k", "e" >>)
    \/ Contains(t, << "r", "i", "d", "e" >>)
    \/ Contains(t, << "c", "y", "c", "l", "e" >>)
    \/ Contains(t, << "s", "w", "i", "m" >>)
    \/ Contains(t, << "w", "a", "l", "k" >>)
    \/ Contains(t, << "h", "i", "k", "e" >>)

\* normalize_cadence_spm(activity_type, avg_cadence): both arguments are {}
\* for None, and so is the result.
NormalizeCadenceSpm(activity_type, avg_cadence) ==
    IF avg_cadence = {} THEN {}
    ELSE IF activity_type = {} THEN avg_cadence
    ELSE LET t == Lower(CHOOSE s \in activity_type : TRUE)
             c == CHOOSE x \in avg_cadence : TRUE
             is_run_intent == \E k \in DOMAIN run_intents : Contains(t, run_intents[k])
             is_bike == IsBike(t)
         IN  IF (~ is_run_intent \/ is_bike) /\ ~ Contains(t, << "r", "u", "n" >>)
             THEN {c}
             ELSE IF (~ is_run_intent \/ is_bike) /\ is_bike
             THEN {c}
             ELSE IF c < 130 THEN {c * 2}
             ELSE {c}

----------------------------------------------------------------------------
(* Interval detection: processing/intervals.py.  The labels array holds 1    *)
(* (work), -1 (rest) or 0 (transition) for each second of the recording.    *)

RECURSIVE ExtractFrom(_, _, _)
\* intervals.py:201-218  the loop of _extract_segments and its final segment.
\* start is a position in the sequence, one more than the array index; i is
\* the first position after start whose label differs, where the loop closes
\* the segment, or the position after the last when there is none.
ExtractFrom(labels, start, segments) ==
    LET changes == {j \in (start + 1)..Len(labels) : labels[j] # labels[start]}
        i == IF changes = {} THEN Len(labels) + 1
             ELSE CHOOSE j \in changes : \A k \in changes : j <= k
        label_name == IF labels[start] = 1 THEN "work"
                      ELSE IF labels[start] = -1 THEN "rest" ELSE "transition"
        segment == [type |-> label_name, start |-> start - 1, duration_s |-> i - start]
    IN IF i > Len(labels) THEN Append(segments, segment)
       ELSE ExtractFrom(labels, i, Append(segments, segment))

\* intervals.py:192-220  _extract_segments
ExtractSegments(labels) ==
    IF Len(labels) = 0 THEN << >> ELSE ExtractFrom(labels, 1, << >>)

RECURSIVE SumDurations(_)
\* sum(work_durations), sum(rest_durations)
SumDurations(segments) ==
    IF segments = << >> THEN 0
    ELSE Head(segments).duration_s + SumDurations(Tail(segments))

\* A variant that takes a single repetition for an interval session.
EnoughRepsOne(work_segs) == Len(work_segs) >= 1

\* intervals.py:63  if len(work_segs) < 2: return None
EnoughReps(work_segs) == Len(work_segs) >= 2

\* intervals.py:13-152  detect_intervals.  labels stands for what lines 30-54
\* compute from the velocity stream: {} when there is no velocity stream or
\* no threshold separates two speeds (lines 26-28, 40-45), otherwise the
\* labels, one for each sample.  Of a segment the number, the start and the
\* duration are kept, of the summary the times and the count; {} is None.
DetectIntervals(labels, activity_class) ==
    IF activity_class # "Intervals" THEN {}
    ELSE IF labels = {} THEN {}
    ELSE LET lab == CHOOSE l \in labels : TRUE IN
    IF Len(lab) < 60 THEN {}
    ELSE LET raw_segments == ExtractSegments(lab)
             work_segs == SelectSeq(raw_segments,
                              LAMBDA s : s.type = "work" /\ s.duration_s >= 30)
             rest_segs == SelectSeq(raw_segments,
                              LAMBDA s : s.type = "rest" /\ s.duration_s >= 15)
    IN IF ~ EnoughReps(work_segs) THEN {}
       ELSE LET first_work_start == work_segs[1].start
                last_work_end == work_segs[Len(work_segs)].start
                                 + work_segs[Len(work_segs)].duration_s
                work_details ==
                    [idx \in DOMAIN work_segs |->
                        [segment_number |-> idx,
                         start_time_s |-> work_segs[idx].start,
                         duration_s |-> work_segs[idx].duration_s]]
                between == SelectSeq(rest_segs,
                               LAMBDA r : ~ (r.start < first_work_start
                                             \/ r.start >= last_work_end))
                rest_details ==
                    [idx \in DOMAIN between |->
                        [segment_number |-> idx, duration_s |-> between[idx].duration_s]]
            IN {[warmup_duration_s |-> IF first_work_start >= 120
                                       THEN {first_work_start} ELSE {},
                 cooldown_duration_s |-> IF Len(lab) - last_work_end >= 120
                                         THEN {Len(lab) - last_work_end} ELSE {},
                 work_segments |-> work_details,
                 rest_segments |-> rest_details,
                 summary |-> [total_work_time_s |-> SumDurations(work_details),
                              total_rest_time_s |-> SumDurations(rest_details),
                              rep_count |-> Len(work_details)]]}

----------------------------------------------------------------------------
(* Heart-rate zones and interval KPIs: processing/metrics.py,               *)
(* workout_matching.py and steps 4 and 6.7 of process_activity              *)

\* metrics.py:6-50  calculate_time_in_zones: the samples above 30 counted in
\* the bins [0.8 max_hr, 0.9 max_hr) and [0.9 max_hr, 250]; {} is None.  Of
\* the five zones Z4 and Z5 are kept.
TimeInZones(hr_list, max_hr) ==
    LET hr == SelectSeq(hr_list, LAMBDA h : h > 30)
        Count(P(_)) == Cardinality({i \in DOMAIN hr : P(hr[i])})
    IN IF hr = << >> THEN {}
       ELSE {[Z4 |-> Count(LAMBDA h : 10 * h >= 8 * max_hr /\ 10 * h < 9 * max_hr),
              Z5 |-> Count(LAMBDA h : 10 * h >= 9 * max_hr /\ h <= 250)]}

\* engine.py:127-130  max_hr of process_activity; the profile is {} for None
ProfileMaxHr(profile) ==
    IF \E p \in profile : \E n \in p.max_hr : n > 100
    THEN CHOOSE n \in (CHOOSE p \in profile : TRUE).max_hr : TRUE
    ELSE 190

\* metrics.py:216-224  zones of compute_derived_metrics_data: nothing without
\* streams, and max_hr only when it is above 150
ZonesOf(streams_hr, max_hr) ==
    IF streams_hr = {} THEN {}
    ELSE TimeInZones(CHOOSE l \in streams_hr : TRUE, IF max_hr > 150 THEN max_hr ELSE 190)

\* workout_matching.py:169-230  build_interval_kpis; the KPIs computed from
\* speeds and heart rates of the segments are left out
BuildIntervalKpis(interval_structure, zones_calibrated, time_in_zones) ==
    [work_rest_ratio_of |-> interval_structure.summary.rep_count,
     total_z4_plus_s |->
        IF zones_calibrated /\ time_in_zones # {}
        THEN {z.Z4 + z.Z5 : z \in time_in_zones}
        ELSE {}]

\* engine.py:148-159  step 6.7 of process_activity
IntervalKpis(profile, interval_structure, time_in_zones) ==
    IF interval_structure = {} THEN {}
    ELSE LET zones_calibrated == \E p \in profile : \E n \in p.max_hr : n > 100
         IN {BuildIntervalKpis(CHOOSE is \in interval_structure : TRUE,
                               zones_calibrated, time_in_zones)}

\* engine.py:127-159  time_in_zones and interval_kpis of metrics_data
ZoneMetrics(profile, streams_hr, interval_structure) ==
    LET time_in_zones == ZonesOf(streams_hr, ProfileMaxHr(profile))
    IN [time_in_zones |-> time_in_zones,
        interval_kpis |-> IntervalKpis(profile, interval_structure, time_in_zones)]

----------------------------------------------------------------------------
(* The specifications *)

\* Nobody is in the middle of anything: workers idle, no API request open,
\* no manual sync running.
AtRest ==
    /\ now = 0
    /\ issued = 0
    /\ posts = 0
    /\ exec = [j \in JobIds |-> 0]
    /\ pc = [w \in Workers |-> "idle"]
    /\ job = [w \in Workers |-> JobId(0, 0)]
    /\ sess = [w \in Workers |-> {}]
    /\ data = [w \in Workers |-> {}]
    /\ tok = [w \in Workers |-> NoToken]
    /\ raw = [w \in Workers |-> {}]
    /\ existing = [w \in Workers |-> {}]
    /\ apiPc = "idle"
    /\ apiCalls = 0
    /\ apiAct = 0
    /\ apiLoad = NoLoad
    /\ apiReq = NoReq
    /\ apiResp = 0
    /\ checkins = {}
    /\ syncPc = "idle"
    /\ syncs = 0
    /\ syncPage = << >>
    /\ syncPos = 0
    /\ syncFlushed = {}
    /\ syncErrors = << >>

\* ... and no Derived Metric stored.
Stopped ==
    /\ AtRest
    /\ metrics = {}

\* ... and no stream stored, no function called on its own.
Quiet ==
    /\ Stopped
    /\ streams = {}
    /\ fnIn = << >>
    /\ fnOut = {}

\* The account as linked with the provider's bundle 0, expiring at x.
LinkedAccount(x) ==
    [access_token |-> AccessTok(0), refresh_token |-> RefreshTok(0),
     expires_at |-> x]

\* The activities table after each activity a was synced once, with the
\* document f[a].
SyncedActivities(f) ==
    {NewActivity(ActivityData(DocumentOf(a, f[a]), UserId), a) : a \in DOMAIN f}

RECURSIVE QueuedJobs(_)
\* The queue after create events for activity 1 at the times 1..t.
QueuedJobs(t) == IF t = 0 THEN << >> ELSE Append(QueuedJobs(t - 1), JobId(1, t))

\* -- The whole system, from an empty database.
Init ==
    /\ Quiet
    /\ \E x \in {REFRESH_BUFFER, REFRESH_BUFFER + 1} : account = LinkedAccount(x)
    /\ queue = << >>
    /\ jobs = [j \in JobIds |-> NoJob]
    /\ webhooks = 0
    /\ resp = "none"
    /\ activities = {}
    /\ nextId = 1

Next ==
    \/ Tick
    \/ \E e \in Events : \E ok \in BOOLEAN : ReceiveWebhook(e, ok)
    \/ \E w \in Workers : SyncActivityJob_Start(w)
    \/ \E w \in Workers : EnsureValidToken_Check(w)
    \/ \E w \in Workers : EnsureValidToken_Response(w)
    \/ \E w \in Workers : EnsureValidToken_Raise(w)
    \/ \E w \in Workers : EnsureValidToken_Commit(w)
    \/ \E w \in Workers : EnsureValidToken_Return(w)
    \/ \E w \in Workers : \E v \in Variants : GetActivity(w, v)
    \/ \E w \in Workers : GetActivity_Raise(w)
    \/ \E w \in Workers : UpsertActivity_Select(w)
    \/ \E w \in Workers : UpsertActivity_Commit(w)
    \/ \E id \in 1..MaxActivity : \E intent \in Intents : UpdateActivityIntent(id, intent)
    \/ \E id \in 1..MaxActivity : \E body \in CheckInBodies : CreateCheckin(id, body)
    \/ ProcessActivity_Load
    \/ ProcessActivity_Commit
    \/ \E f \in [ActivityIds -> 0..MaxVariant] : SyncRecentActivities_Start(PageOf(f, 1))
    \/ SyncRecentActivities_Raise
    \/ \E ok \in BOOLEAN : Sync_Upsert(ok)
    \/ \E response \in StreamResponses : Sync_FetchStreams(response)
    \/ \E ok \in BOOLEAN : Sync_Analysis(ok)

Spec == Init /\ [][Next]_vars

\* -- The token lifecycle: the workers and the clock, with the jobs of
\* MaxEventTime create events for activity 1 already queued and the account's
\* expires_at at the edge of the buffer or one second beyond it.
InitToken ==
    /\ Quiet
    /\ \E x \in {REFRESH_BUFFER, REFRESH_BUFFER + 1} : account = LinkedAccount(x)
    /\ queue = QueuedJobs(MaxEventTime)
    /\ jobs = [j \in JobIds |->
                 IF JobActivity(j) = 1
                 THEN [athlete |-> "linked", activity |-> 1,
                       result_ttl |-> RESULT_TTL, status |-> "queued"]
                 ELSE NoJob]
    /\ webhooks = MaxEventTime
    /\ resp = "processed:enqueued"
    /\ activities = {}
    /\ nextId = 1

NextToken ==
    \/ Tick
    \/ \E w \in Workers : SyncActivityJob_Start(w)
    \/ \E w \in Workers : EnsureValidToken_Check(w)
    \/ \E w \in Workers : EnsureValidToken_Response(w)
    \/ \E w \in Workers : EnsureValidToken_Raise(w)
    \/ \E w \in Workers : EnsureValidToken_Commit(w)
    \/ \E w \in Workers : EnsureValidToken_Return(w)
    \/ \E w \in Workers : GetActivity(w, 1)
    \/ \E w \in Workers : GetActivity_Raise(w)
    \/ \E w \in Workers : UpsertActivity_Select(w)
    \/ \E w \in Workers : UpsertActivity_Commit(w)

SpecToken == InitToken /\ [][NextToken]_vars

\* -- The webhook intake alone: every event, the broker and the database up
\* or down, over a database in which every activity was synced once.
InitWebhook ==
    /\ Quiet
    /\ account = LinkedAccount(REFRESH_BUFFER + 1)
    /\ queue = << >>
    /\ jobs = [j \in JobIds |-> NoJob]
    /\ webhooks = 0
    /\ resp = "none"
    /\ activities = SyncedActivities([a \in ActivityIds |-> 1])
    /\ nextId = MaxActivity + 1

NextWebhook == \E e \in Events : \E ok \in BOOLEAN : ReceiveWebhook(e, ok)

SpecWebhook == InitWebhook /\ [][NextWebhook]_vars

\* -- The ingestion: create/update events that reach the broker, the workers
\* with a token that stays fresh, and the intent request with its processing.
IngestEvents == {e \in Events : Dispatch(e) = "enqueue"}

InitIngest ==
    /\ Quiet
    /\ account = LinkedAccount(REFRESH_BUFFER + 1)
    /\ queue = << >>
    /\ jobs = [j \in JobIds |-> NoJob]
    /\ webhooks = 0
    /\ resp = "none"
    /\ activities = {}
    /\ nextId = 1

NextIngest ==
    \/ \E e \in IngestEvents : ReceiveWebhook(e, TRUE)
    \/ \E w \in Workers : SyncActivityJob_Start(w)
    \/ \E w \in Workers : EnsureValidToken_Check(w)
    \/ \E w \in Workers : \E v \in Variants : GetActivity(w, v)
    \/ \E w \in Workers : GetActivity_Raise(w)
    \/ \E w \in Workers : UpsertActivity_Select(w)
    \/ \E w \in Workers : UpsertActivity_Commit(w)
    \/ \E id \in 1..MaxActivity : UpdateActivityIntent(id, "Tempo")
    \/ ProcessActivity_Load
    \/ ProcessActivity_Commit

SpecIngest == InitIngest /\ [][NextIngest]_vars

\* -- The upsert alone: create events of the linked athlete, delivered once or
\* again, and the workers writing whatever document the provider answers with.
UpsertEvents ==
    {e \in IngestEvents : e.aspect_type = "create" /\ e.owner_id = "linked"}

NextUpsert ==
    \/ \E e \in UpsertEvents : ReceiveWebhook(e, TRUE)
    \/ \E w \in Workers : SyncActivityJob_Start(w)
    \/ \E w \in Workers : EnsureValidToken_Check(w)
    \/ \E w \in Workers : \E v \in Variants : GetActivity(w, v)
    \/ \E w \in Workers : UpsertActivity_Select(w)
    \/ \E w \in Workers : UpsertActivity_Commit(w)

SpecUpsert == InitIngest /\ [][NextUpsert]_vars

\* -- The read side: delete events and intent requests with their
\* processing, over a database in which every activity was synced once.
DeleteEvents == {e \in Events : Dispatch(e) = "delete" /\ e.event_time = 1}

InitRead ==
    /\ Quiet
    /\ account = LinkedAccount(REFRESH_BUFFER + 1)
    /\ queue = << >>
    /\ jobs = [j \in JobIds |-> NoJob]
    /\ webhooks = 0
    /\ resp = "none"
    /\ \E f \in [ActivityIds -> Variants] : activities = SyncedActivities(f)
    /\ nextId = MaxActivity + 1

NextRead ==
    \/ \E e \in DeleteEvents : ReceiveWebhook(e, TRUE)
    \/ \E id \in 1..MaxActivity : \E intent \in Intents : UpdateActivityIntent(id, intent)
    \/ ProcessActivity_Load
    \/ ProcessActivity_Commit

SpecRead == InitRead /\ [][NextRead]_vars

\* -- The intent and check-in requests with their processing, over a database
\* in which every activity was synced once and the first activity has no
\* streams or the two channels with samples of one kind.
StoredStreams ==
    {{}} \cup
    {NewStreams({[stream_type |-> c, data |-> d] : c \in Channels}, 1, MaxActivity + 1)
        : d \in StreamData}

InitCheckin ==
    /\ Stopped
    /\ fnIn = << >>
    /\ fnOut = {}
    /\ account = LinkedAccount(REFRESH_BUFFER + 1)
    /\ queue = << >>
    /\ jobs = [j \in JobIds |-> NoJob]
    /\ webhooks = 0
    /\ resp = "none"
    /\ \E v \in Variants : activities = SyncedActivities([a \in ActivityIds |-> v])
    /\ \E S \in StoredStreams : streams = S
    /\ nextId = MaxActivity + 1 + Cardinality(Channels)

NextCheckin ==
    \/ \E id \in 1..MaxActivity : \E intent \in Intents : UpdateActivityIntent(id, intent)
    \/ \E id \in 1..MaxActivity : \E body \in CheckInBodies : CreateCheckin(id, body)
    \/ ProcessActivity_Load
    \/ ProcessActivity_Commit

SpecCheckin == InitCheckin /\ [][NextCheckin]_vars

\* -- The manual sync alone, from an empty database: every page, every stream
\* response, the database answering or refusing, and the clock, which lets
\* the token go stale between two provider calls.
NextSync ==
    \/ Tick
    \/ \E f \in [ActivityIds -> 0..MaxVariant] : SyncRecentActivities_Start(PageOf(f, 1))
    \/ SyncRecentActivities_Raise
    \/ \E ok \in BOOLEAN : Sync_Upsert(ok)
    \/ \E response \in StreamResponses : Sync_FetchStreams(response)
    \/ \E ok \in BOOLEAN : Sync_Analysis(ok)

SpecSync == InitIngest /\ [][NextSync]_vars

\* -- The manual sync and the intent requests, from an empty database: the
\* Derived Metrics are written by run_analysis first and by process_activity
\* after an intent request.  The provider holds the documents as first
\* recorded and answers every stream request; the database refuses nothing.
NextRevert ==
    \/ \E f \in [ActivityIds -> {0, 1}] : SyncRecentActivities_Start(PageOf(f, 1))
    \/ SyncRecentActivities_Raise
    \/ Sync_Upsert(TRUE)
    \/ \E response \in StreamResponses :
          response.status = "ok" /\ Sync_FetchStreams(response)
    \/ Sync_Analysis(TRUE)
    \/ \E r \in activities : \E intent \in Intents : UpdateActivityIntent(r.id, intent)
    \/ ProcessActivity_Load
    \/ ProcessActivity_Commit

SpecRevert == InitIngest /\ [][NextRevert]_vars

\* -- The stream fetches of the manual sync, from an empty database: every
\* stream response, for activities that are new or already stored with
\* streams; the list endpoint answers with one activity at a time, as first
\* recorded, the token stays fresh and the database refuses nothing.
NextStreams ==
    \/ \E a \in ActivityIds : SyncRecentActivities_Start(<< DocumentOf(a, 1) >>)
    \/ SyncRecentActivities_Raise
    \/ Sync_Upsert(TRUE)
    \/ \E response \in StreamResponses : Sync_FetchStreams(response)
    \/ Sync_Analysis(TRUE)

SpecStreams == InitIngest /\ [][NextStreams]_vars

\* -- One function called on its own: the system stays as linked, with an
\* empty database; fnIn holds the arguments and fnOut the value returned.
InitFunction ==
    /\ Stopped
    /\ streams = {}
    /\ account = LinkedAccount(REFRESH_BUFFER + 1)
    /\ queue = << >>
    /\ jobs = [j \in JobIds |-> NoJob]
    /\ webhooks = 0
    /\ resp = "none"
    /\ activities = {}
    /\ nextId = 1
    /\ fnOut = {}

\* The function returns: y is its value.
Returns(y) ==
    /\ fnOut = {}
    /\ fnOut' = {y}
    /\ UNCHANGED << now, account, issued, posts, queue, jobs, exec, webhooks,
                    resp, activities, nextId, metrics, pc, job, sess, data, tok,
                    raw, existing, apiPc, apiCalls, apiAct, apiLoad, apiReq,
                    apiResp, streams, checkins, syncVars, fnIn >>

\* -- classify_activity on Activity objects as they can be constructed: any
\* combination of intent, name, sport, trainer flag, distance, duration,
\* elevation gain and heart rate, with no history or with one 4000 s outing.
ClassifyActivities ==
    [user_intent : {None, "", "Tempo"},
     name : {None, "", "Morning Run", "City RACE", "Hill Intervals", "Recovery Jog"},
     type : {"Run", "Ride"},
     raw_summary : [trainer : BOOLEAN,
                    sport_type : {None, "Run", "Ride", "Walk", "Swim", "WeightTraining"}],
     distance_m : {0, 5000},
     moving_time_s : {60, 4500, 4501},
     elev_gain_m : {10, 80, 110},
     avg_hr : {{}, {150}, {151}}]

ClassifyHistories == {{}, {[moving_time_s |-> 4000]}}

InitClassify ==
    /\ InitFunction
    /\ \E a \in ClassifyActivities : \E history \in ClassifyHistories :
          fnIn = << a, history >>

ClassifyActivity_Call == Returns(ClassifyActivity(fnIn[1], fnIn[2]))

SpecClassify == InitClassify /\ [][ClassifyActivity_Call]_vars

\* -- compute_risk_score on every list of up to MaxFlags flags (the five of
\* the table and one without points, repeated or not), with no check-in or
\* one around sleep_quality 2 and rpe 8, and with no training context or one
\* around 2 hard sessions and 3 days.
RiskFlags ==
    {"fatigue_possible", "pain_reported", "load_spike", "pain_severe",
     "illness_or_extreme_fatigue", "data_low_confidence_hr"}

RiskFlagLists == UNION {[1..n -> RiskFlags] : n \in 0..MaxFlags}

RiskCheckIns ==
    {{}} \cup {{c} : c \in [sleep_quality : {{}, {2}, {3}}, rpe : {{}, {7}, {8}},
                            pain_score : {{}}]}

RiskTrainingContexts ==
    {{}} \cup {{t} : t \in [hard_sessions_this_week : {1, 2},
                            days_since_last_hard : {{}, {3}, {4}}]}

InitRisk ==
    /\ InitFunction
    /\ \E flags \in RiskFlagLists : \E check_in \in RiskCheckIns :
          \E training_context \in RiskTrainingContexts :
              fnIn = << flags, check_in, training_context >>

ComputeRiskScore_Call == Returns(ComputeRiskScore(fnIn[1], fnIn[2], fnIn[3]))

SpecRisk == InitRisk /\ [][ComputeRiskScore_Call]_vars

\* -- The weekly buckets of the trends report, for every range key, on every
\* day of a week, over up to two stored activities dated from 400 days back
\* to 16 days ahead of today, deleted or not.
TrendsToday == 400..406
TrendsOffsets == {-400, -45, -10, -1, 0, 1, 9, 16}
TrendsRanges == {"7D", "30D", "3M", "6M", "1Y", "ALL"}

InitTrends ==
    /\ InitFunction
    /\ \E today \in TrendsToday : \E range_key \in TrendsRanges :
          \E offs \in SUBSET TrendsOffsets : \E deleted \in BOOLEAN :
              /\ Cardinality(offs) <= 2
              /\ offs = {} => ~ deleted
              /\ fnIn = << {[start_date |-> today + o, is_deleted |-> deleted] : o \in offs},
                           range_key, today >>

BuildWeeklyBuckets_Call ==
    Returns(BuildWeeklyBuckets(DailyDates(fnIn[1], fnIn[2], fnIn[3]), fnIn[2], fnIn[3]))

SpecTrends == InitTrends /\ [][BuildWeeklyBuckets_Call]_vars

\* -- normalize_cadence_spm on the provider's sport types, on intents and on
\* no type at all, with no cadence or one from 0 to 190 around the threshold
\* of 130.
CadenceTypes ==
    {<< "R", "u", "n" >>, << "W", "a", "l", "k" >>, << "R", "i", "d", "e" >>,
     << "H", "i", "k", "e" >>, << "T", "r", "a", "i", "l", "R", "u", "n" >>,
     << "T", "e", "m", "p", "o" >>, << "B", "i", "k", "e", " ", "R", "a", "c", "e" >>,
     << "Y", "o", "g", "a" >>, << >>}

CadenceValues == {0, 50, 80, 129, 130, 131, 190}

InitCadence ==
    /\ InitFunction
    /\ \E activity_type \in {{}} \cup {{t} : t \in CadenceTypes} :
          \E avg_cadence \in {{}} \cup {{c} : c \in CadenceValues} :
              fnIn = << activity_type, avg_cadence >>

NormalizeCadenceSpm_Call == Returns(NormalizeCadenceSpm(fnIn[1], fnIn[2]))

SpecCadence == InitCadence /\ [][NormalizeCadenceSpm_Call]_vars

\* -- The intent and check-in requests over a database that holds any subset
\* of the activities, each synced once: a request may name an activity that
\* is not there.
InitApi ==
    /\ Quiet
    /\ account = LinkedAccount(REFRESH_BUFFER + 1)
    /\ queue = << >>
    /\ jobs = [j \in JobIds |-> NoJob]
    /\ webhooks = 0
    /\ resp = "none"
    /\ \E S \in SUBSET ActivityIds : activities = SyncedActivities([a \in S |-> 1])
    /\ nextId = MaxActivity + 1

SpecApi == InitApi /\ [][NextCheckin]_vars

\* -- generate_flags on an activity with heart rate, classified Easy Run: in
\* one half of the calls without check-in, with a current effort around 1.8
\* times 10.0 and a history of up to RECENT_LIMIT + 1 earlier activities, each
\* with its Derived Metric of effort 0, 10.0 or 50.0, the rows as the query
\* returned them, latest activity first or earliest first; in the other half
\* without history, with a check-in of any sleep quality from 0 to 10 and rpe
\* and pain score around their thresholds.
FlagsActivity == [avg_hr |-> {140}, max_hr |-> {190}]

FlagsMetricData(effort) ==
    [activity_class |-> "Easy Run", effort_score |-> effort,
     hr_drift |-> {}, pace_variability |-> {}]

\* history of process_activity: the n earlier activities, latest first
FlagsHistory(n) == [i \in 1..n |-> [id |-> n + 1 - i, start_date |-> n + 1 - i]]

\* history_metrics: the Derived Metric rows of the n activities
FlagsHistoryMetrics(n, efforts, latest_first) ==
    [i \in 1..n |->
        LET id == IF latest_first THEN n + 1 - i ELSE i
        IN [activity_id |-> id, effort_score |-> efforts[id]]]

FlagsCheckIns ==
    [rpe : {{}, {0}, {7}, {8}, {10}},
     pain_score : {{}, {0}, {4}, {5}, {10}},
     sleep_quality : {{}} \cup {{q} : q \in 0..10}]

InitFlags ==
    /\ InitFunction
    /\ \/ \E n \in 0..(RECENT_LIMIT + 1) : \E efforts \in [1..n -> {0, 100, 500}] :
             \E latest_first \in BOOLEAN : \E effort \in {0, 180, 181, 200} :
                 fnIn = << FlagsActivity, FlagsMetricData(effort), FlagsHistory(n), {},
                           FlagsHistoryMetrics(n, efforts, latest_first) >>
       \/ \E c \in FlagsCheckIns :
             fnIn = << FlagsActivity, FlagsMetricData(300), << >>, {c}, << >> >>

GenerateFlags_Call == Returns(GenerateFlags(fnIn[1], fnIn[2], fnIn[4], fnIn[5]))

SpecFlags == InitFlags /\ [][GenerateFlags_Call]_vars

\* -- compute_confidence with and without heart rate, streams, GPS channel
\* and check-in, with no workout match or one carrying up to two reasons and
\* a match score around 0.7, and with no interval structure or one whose work
\* time is around 2700 s, with or without a warm-up.
ConfidenceActivities == [avg_hr : {{}, {0}, {150}}]

ConfidenceStreams ==
    {{}, {[stream_type |-> "heartrate", data |-> "steady"]},
     {[stream_type |-> "heartrate", data |-> "steady"],
      [stream_type |-> "latlng", data |-> "steady"]}}

ConfidenceCheckIns == {{}, {[rpe |-> {8}, pain_score |-> {}, sleep_quality |-> {}]}}

ConfidenceWorkoutMatches ==
    {{}} \cup
    {{wm} : wm \in
        [confidence_reasons :
            {<< >>, << "no_intervals_detected" >>, << "no_planned_workout" >>,
             << "high_rep_distance_variability", "no_planned_workout" >>,
             << "high_rep_duration_variability", "no_planned_workout" >>,
             << "rep_distance_mismatch" >>,
             << "high_rep_distance_variability", "rep_distance_mismatch" >>,
             << "no_user_checkin" >>},
         match_score : {{}, {0}, {69}, {70}, {100}}]}

ConfidenceIntervalStructures ==
    {{}} \cup
    {{is} : is \in [summary : [total_work_time_s : {2700, 2701}],
                    warmup_duration_s : {{}, {0}, {300}}]}

InitConfidence ==
    /\ InitFunction
    /\ \E a \in ConfidenceActivities : \E sd \in ConfidenceStreams :
          \E check_in \in ConfidenceCheckIns :
              \E interval_structure \in ConfidenceIntervalStructures :
                  \E workout_match \in ConfidenceWorkoutMatches :
                      fnIn = << a, sd, check_in, interval_structure, workout_match >>

ComputeConfidence_Call ==
    Returns(ComputeConfidence(fnIn[1], fnIn[2], fnIn[3], fnIn[4], fnIn[5]))

SpecConfidence == InitConfidence /\ [][ComputeConfidence_Call]_vars

\* -- detect_intervals for the class Intervals on recordings made of up to
\* MaxBlocks stretches of work, rest or transition pace, each 15, 29 or 30
\* seconds long (two stretches of one kind in a row make one longer stretch),
\* and on a recording without a usable velocity stream; for the class Tempo
\* on that and on a recording of two repetitions.
BlockLabels == {1, 0, -1}
BlockDurations == {15, 29, 30}

RECURSIVE LabelsOf(_)
\* the labels array of a recording: each stretch's label, once a second
LabelsOf(blocks) ==
    IF blocks = << >> THEN << >>
    ELSE [i \in 1..Head(blocks)[2] |-> Head(blocks)[1]] \o LabelsOf(Tail(blocks))

IntervalRecordings ==
    UNION {[1..n -> BlockLabels \X BlockDurations] : n \in 1..MaxBlocks}

InitIntervals ==
    /\ InitFunction
    /\ \/ \E activity_class \in {"Intervals", "Tempo"} :
             fnIn = << {}, activity_class >>
       \/ \E blocks \in IntervalRecordings :
             fnIn = << {LabelsOf(blocks)}, "Intervals" >>
       \/ fnIn = << {LabelsOf(<< << 1, 30 >>, << -1, 15 >>, << 1, 30 >> >>)}, "Tempo" >>

DetectIntervals_Call == Returns(DetectIntervals(fnIn[1], fnIn[2]))

SpecIntervals == InitIntervals /\ [][DetectIntervals_Call]_vars

\* -- The type filter of the trends report over up to two stored activities,
\* runs and rides with no intent, an empty one, Tempo or Race, with no filter,
\* an empty one or a list of one or two types in either case.
TypeRun == << "R", "u", "n" >>
TypeRide == << "R", "i", "d", "e" >>
IntentTempo == << "T", "e", "m", "p", "o" >>
IntentRace == << "R", "a", "c", "e" >>

TrendsActivities(id) ==
    [id : {id}, type : {TypeRun, TypeRide},
     user_intent : {{}, {<< >>}, {IntentTempo}, {IntentRace}},
     start_date : {id}, is_deleted : {FALSE}]

TrendsTypeFilters ==
    {{}, {<< >>}, {<< TypeRun >>}, {<< Lower(TypeRun) >>}, {<< Lower(TypeRide) >>},
     {<< IntentTempo >>}, {<< << "R", "U", "N" >>, Lower(IntentTempo) >>}}

InitTypeFilter ==
    /\ InitFunction
    /\ \E a \in {{}} \cup {{r} : r \in TrendsActivities(1)} :
          \E b \in {{}} \cup {{r} : r \in TrendsActivities(2)} :
              \E types \in TrendsTypeFilters :
                  fnIn = << a \cup b, types >>

QueryActivityFacts_Call ==
    Returns(FilterTypes(QueryActivityFacts(fnIn[1], {}, {}), fnIn[2]))

SpecTypeFilter == InitTypeFilter /\ [][QueryActivityFacts_Call]_vars

\* -- GET /activities/{id} over a database of two activities, the second a
\* day after the first: each an outdoor run of 30 or 80 minutes or of 100
\* minutes, a treadmill run, an outdoor or indoor ride or a walk, and each
\* with the Derived Metric that the manual sync's analysis or process_activity
\* wrote for it when it came in.
DetailKinds ==
    {[sport |-> "Run", trainer |-> FALSE, moving_time_s |-> 1800],
     [sport |-> "Run", trainer |-> FALSE, moving_time_s |-> 4800],
     [sport |-> "Run", trainer |-> FALSE, moving_time_s |-> 6000],
     [sport |-> "Run", trainer |-> TRUE, moving_time_s |-> 1800],
     [sport |-> "Ride", trainer |-> FALSE, moving_time_s |-> 1800],
     [sport |-> "Ride", trainer |-> TRUE, moving_time_s |-> 1800],
     [sport |-> "Walk", trainer |-> FALSE, moving_time_s |-> 1800]}

\* The stored activity id of the kind k, as upsert_activity creates it from a
\* document of that sport.
DetailActivity(id, k) ==
    LET doc == [DocumentOf(id, 1) EXCEPT !.type = k.sport, !.sport_type = k.sport,
                                         !.trainer = k.trainer]
    IN [NewActivity(ActivityData(doc, UserId), id)
            EXCEPT !.moving_time_s = k.moving_time_s]

\* The Derived Metric of activity a in the database acts with the metrics ms,
\* written by run_analysis (legacy) or by process_activity.
DetailMetric(a, acts, ms, legacy) ==
    IF legacy THEN AnalysisMetric(a, History(acts, a), {}, {})
    ELSE ProcessedMetric([activity |-> {a}, history |-> History(acts, a),
                          context |-> TrainingContextRows(acts, a),
                          streams |-> {}, check_in |-> {}, metrics |-> ms])

InitDetail ==
    /\ AtRest
    /\ streams = {}
    /\ fnIn = << >>
    /\ fnOut = {}
    /\ account = LinkedAccount(REFRESH_BUFFER + 1)
    /\ queue = << >>
    /\ jobs = [j \in JobIds |-> NoJob]
    /\ webhooks = 0
    /\ resp = "none"
    /\ nextId = 3
    /\ \E k1 \in DetailKinds : \E k2 \in DetailKinds : \E legacy \in BOOLEAN :
          LET a1 == DetailActivity(1, k1)
              a2 == DetailActivity(2, k2)
              m1 == DetailMetric(a1, {a1}, {}, legacy)
              m2 == DetailMetric(a2, {a1, a2}, {m1}, legacy)
          IN /\ activities = {a1, a2}
             /\ metrics = {m1, m2}

NextDetail ==
    \E id \in 1..3 : ReadActivity(id)

SpecDetail == InitDetail /\ [][NextDetail]_vars

\* -- The zone times and interval KPIs of process_activity for no profile or
\* one with max_hr missing, 100, 101, 160 or 190 and max_hr_source missing,
\* empty or user_entered; without streams, without usable heart-rate samples
\* or with samples below zone 4, in zone 4 and in zone 5 (none of them on the
\* edge of a zone); with an interval structure of two repetitions or none.
KpiProfiles ==
    {{}} \cup {{p} : p \in [max_hr : {{}, {100}, {101}, {160}, {190}},
                            max_hr_source : {None, "", "user_entered"}]}

KpiHeartRates ==
    {{}, {<< >>}, {<< 20, 0 >>}, {<< 120, 125 >>}, {<< 120, 160, 165, 180 >>},
     {<< 140, 150, 20 >>}}

KpiIntervalStructures ==
    {{}, DetectIntervals({LabelsOf(<< << 1, 30 >>, << -1, 15 >>, << 1, 30 >> >>)},
                         "Intervals")}

InitKpis ==
    /\ InitFunction
    /\ \E profile \in KpiProfiles : \E streams_hr \in KpiHeartRates :
          \E interval_structure \in KpiIntervalStructures :
              \* engine.py:140  no interval structure without streams
              /\ streams_hr = {} => interval_structure = {}
              /\ fnIn = << profile, streams_hr, interval_structure >>

ZoneMetrics_Call == Returns(ZoneMetrics(fnIn[1], fnIn[2], fnIn[3]))

SpecKpis == InitKpis /\ [][ZoneMetrics_Call]_vars

\* -- Everything that writes the activities table, over a database in which
\* every activity was synced once: delete and update events for the first
\* activity, one worker, the manual sync of the first activity as changed at
\* the provider, the intent and check-in requests with their processing.  The
\* token stays fresh, the provider answers and the database refuses nothing.
SoftDeleteEvents ==
    {e \in Events : /\ e.object_type = "activity"
                    /\ e.aspect_type \in {"delete", "update"}
                    /\ e.owner_id = "linked"
                    /\ e.object_id = 1
                    /\ e.event_time = 1}

NextSoftDelete ==
    \/ \E e \in SoftDeleteEvents : ReceiveWebhook(e, TRUE)
    \/ SyncActivityJob_Start("w1")
    \/ EnsureValidToken_Check("w1")
    \/ GetActivity("w1", MaxVariant)
    \/ UpsertActivity_Select("w1")
    \/ UpsertActivity_Commit("w1")
    \/ SyncRecentActivities_Start(<< DocumentOf(1, MaxVariant) >>)
    \/ Sync_Upsert(TRUE)
    \/ Sync_FetchStreams([status |-> "ok", items |-> {}])
    \/ Sync_Analysis(TRUE)
    \/ UpdateActivityIntent(1, "Tempo")
    \/ CreateCheckin(1, [rpe |-> {8}, pain_score |-> {}, sleep_quality |-> {}])
    \/ ProcessActivity_Load
    \/ ProcessActivity_Commit

SpecSoftDelete == InitWebhook /\ [][NextSoftDelete]_vars

----------------------------------------------------------------------------
(* Properties *)

\* A worker between its refresh-grant POST and the commit of the response.
Refreshing(w) == pc[w] \in {"refreshing", "store"}

\* C1: two workers that find the token stale do not both refresh: at most
\* one worker is between the refresh POST and its commit, and the worker
\* that refreshes does so on the row as it is stored (a second worker has
\* observed the first one's update, not its own stale copy).
C1_SingleRefresh ==
    \A w \in Workers :
        Refreshing(w) =>
            /\ \A u \in Workers : Refreshing(u) => u = w
            /\ \A acct \in sess[w] : acct.refresh_token = account.refresh_token

\* C2: sync_activity_job is executed at most once per job id, also when two
\* create/update events carry the same object_id and event_time.
C2_OncePerJobId == \A j \in JobIds : exec[j] <= 1

\* The processes that write rows belonging to the activity with provider id
\* a right now: a worker between upsert_activity's select and its commit, the
\* API request between process_activity's load and the Derived Metric commit.
Writers(a) ==
    {w \in Workers : pc[w] = "commit" /\ \E rawp \in raw[w] : rawp.id = a}
    \cup {p \in {"api"} : /\ apiPc = "store"
                          /\ \E r \in apiLoad.activity : r.strava_activity_id = a}

\* C3: no two executions update the rows of one activity at the same time.
C3_OneWriterPerActivity == \A a \in ActivityIds : Cardinality(Writers(a)) <= 1

\* C4: when the job of an accepted create/update event has completed, the
\* activity was upserted and processed: its row and its Derived Metric row
\* exist.
C4_CompletedJobProcessed ==
    \A j \in JobIds :
        (jobs[j].status = "finished" /\ jobs[j].athlete = "linked") =>
            \E r \in activities :
                /\ r.strava_activity_id = jobs[j].activity
                /\ \E m \in metrics : m.activity_id = r.id

\* What one step of ensure_valid_token in worker w may do.
EnsureValidTokenStep(w) ==
    /\ (pc[w] = "token" /\ pc'[w] # "token") =>
          \E acct \in sess[w] :
              IF acct.expires_at > now + REFRESH_BUFFER
              THEN /\ pc'[w] = "fetch"
                   /\ tok'[w] = acct.access_token
                   /\ posts' = posts
                   /\ account' = account
              ELSE /\ pc'[w] = "refreshing"
                   /\ posts' = posts + 1
                   /\ tok'[w] = tok[w]
                   /\ account' = account
    /\ (pc[w] = "refreshing" /\ pc'[w] = "store") =>
          /\ posts' = posts
          /\ account' = account
    /\ (pc[w] = "store" /\ pc'[w] # "store") =>
          \E d \in data[w] :
              /\ pc'[w] = "reread"
              /\ posts' = posts
              /\ account'.access_token = d.access_token
              /\ account'.refresh_token = d.refresh_token
              /\ account'.expires_at = d.expires_at
    /\ (pc[w] = "reread" /\ pc'[w] # "reread") =>
          /\ pc'[w] = "fetch"
          /\ tok'[w] = account.access_token
          /\ posts' = posts
          /\ account' = account

\* C5: ensure_valid_token returns the stored access token, sends no POST and
\* changes no field exactly when expires_at > now + 60; when expires_at <=
\* now + 60 (equality included) it sends one refresh POST, overwrites
\* access_token, refresh_token and expires_at with the response's values and
\* returns the row's new access_token.  A POST is sent by nothing else.
C5_EnsureValidToken ==
    [][/\ \A w \in Workers : EnsureValidTokenStep(w)
       /\ posts' # posts =>
             \E w \in Workers : pc[w] = "token" /\ pc'[w] = "refreshing"]_vars

\* A call that found expires_at = now + 60, refreshed once and returned the
\* token the provider issued.
C5_Witness ==
    \E w \in Workers :
        /\ pc[w] = "fetch"
        /\ posts = 1
        /\ tok[w] = AccessTok(1)
        /\ account = RefreshedAccount(LinkedAccount(REFRESH_BUFFER), TokenBundle(1, 0))

\* C6: when the refresh call fails, ensure_valid_token raises to its caller
\* after that one attempt (the job fails, no second POST) and leaves the
\* account's fields as they were.
C6_RefreshFailureRaises ==
    [][\A w \in Workers :
          (pc[w] = "refreshing" /\ pc'[w] # "refreshing" /\ pc'[w] # "store") =>
              /\ pc'[w] = "idle"
              /\ jobs'[job[w]].status = "failed"
              /\ posts' = posts
              /\ issued' = issued
              /\ account' = account]_vars

\* A refresh was attempted once, failed, and the row is as it was.
C6_Witness ==
    /\ posts = 1
    /\ issued = 0
    /\ \A w \in Workers : pc[w] = "idle"
    /\ \E j \in JobIds : jobs[j].status = "failed"
    /\ account \in {LinkedAccount(REFRESH_BUFFER), LinkedAccount(REFRESH_BUFFER + 1)}

\* What receive_webhook is to do with event e when the database and the
\* broker answer (ok) or fail (~ok), stated on the event's fields.
WebhookEffect(e, ok) ==
    LET j == << "sync", e.object_id, e.event_time >>
        stored == e.object_type = "activity" /\ e.aspect_type = "delete"
        synced == e.object_type = "activity" /\ e.aspect_type \in {"create", "update"}
    IN
    /\ e.object_type # "activity" =>
          /\ resp' = "ignored:not_activity"
          /\ UNCHANGED << activities, queue, jobs >>
    /\ (stored /\ ok) =>
          /\ resp' = "processed:deleted"
          /\ \A r \in activities :
                IF r.strava_activity_id = e.object_id
                THEN [r EXCEPT !.is_deleted = TRUE] \in activities'
                ELSE r \in activities'
          /\ Cardinality(activities') <= Cardinality(activities)
          /\ UNCHANGED << queue, jobs >>
    /\ (synced /\ ok) =>
          /\ resp' = "processed:enqueued"
          /\ queue' = Append(queue, j)
          /\ jobs'[j] = [athlete |-> e.owner_id, activity |-> e.object_id,
                         result_ttl |-> RESULT_TTL, status |-> "queued"]
          /\ \A k \in JobIds \ {j} : jobs'[k] = jobs[k]
          /\ UNCHANGED activities
    /\ (e.object_type = "activity" /\ ~ stored /\ ~ synced) =>
          /\ resp' = "ignored:unknown_aspect"
          /\ UNCHANGED << activities, queue, jobs >>
    /\ ((stored \/ synced) /\ ~ ok) =>
          /\ resp' = "raised"
          /\ UNCHANGED << activities, queue, jobs >>

\* C7: receive_webhook maps each event to exactly one outcome: a non-activity
\* event is ignored and changes nothing; an activity delete sets is_deleted
\* on the rows with that provider id and enqueues nothing; an activity create
\* or update enqueues exactly one job sync_<object_id>_<event_time> with
\* result_ttl 3600 and changes no Activity row; any other aspect is ignored.
C7_WebhookOutcome ==
    [][\A e \in Events : \A ok \in BOOLEAN :
          ReceiveWebhook(e, ok) => WebhookEffect(e, ok)]_vars

\* A delete was handled, then a create/update: one job queued, a row deleted.
C7_Witness ==
    /\ resp = "processed:enqueued"
    /\ Len(queue) = 1
    /\ jobs[Head(queue)].result_ttl = RESULT_TTL
    /\ \E r \in activities : r.is_deleted

\* C8: the webhook POST handler never raises to the transport, whatever the
\* broker or the database does.
C8_NeverRaises == resp # "raised"

\* C9: a soft-deleted activity is in no trends query result, in no history
\* list process_activity loads for another activity, and in no 7-day
\* training context.
C9_DeletedExcluded ==
    /\ \A r \in QueryActivityFacts(activities, {}, {}) : ~ r.is_deleted
    /\ \A r \in apiLoad.context : ~ r.is_deleted
    /\ \A r \in apiLoad.history : ~ r.is_deleted

\* C10: upsert_activity is idempotent on the provider id: the table holds at
\* most one row per strava_activity_id, and upserting any payload twice
\* leaves what upserting it once leaves: one row for that provider id, with
\* the primary key the activity already had, the payload's canonical fields
\* and the raw payload.
C10_UpsertIdempotent ==
    /\ \A a \in ActivityIds :
          Cardinality({r \in activities : r.strava_activity_id = a}) <= 1
    /\ \A rawp \in RawPayloads :
          LET once == UpsertActivity(activities, nextId, rawp, UserId)
              twice == UpsertActivity(once.acts, once.nextId, rawp, UserId)
          IN /\ once.ok /\ twice.ok
             /\ twice.acts = once.acts
             /\ twice.nextId = once.nextId
             /\ Cardinality({r \in once.acts : r.strava_activity_id = rawp.id}) = 1
             /\ \A r \in once.acts :
                   r.strava_activity_id = rawp.id =>
                       /\ r.name = RawName(rawp)
                       /\ r.start_date = RawStartDate(rawp)
                       /\ r.raw_summary = rawp
                       /\ \A q \in activities :
                             q.strava_activity_id = rawp.id => q.id = r.id
             /\ \A q \in activities :
                   q.strava_activity_id # rawp.id => q \in once.acts

\* Two jobs for one activity have completed, the second with an edited
\* document: the activity has one row, carrying the later document.
C10_Witness ==
    \E j, k \in JobIds :
        /\ j # k
        /\ JobActivity(j) = JobActivity(k)
        /\ jobs[j].status = "finished" /\ jobs[k].status = "finished"
        /\ jobs[j].athlete = "linked" /\ jobs[k].athlete = "linked"
        /\ \E r \in activities :
              /\ r.strava_activity_id = JobActivity(j)
              /\ r.raw_summary.v = MaxVariant

\* C11: in sync_recent_activities, when the handling of a page entry raises,
\* nothing of that activity stays persisted, exactly one error string names
\* it, and the loop goes on: stated for the first sync into the empty
\* database, where every row of an activity is a change of that sync.  An
\* activity named in errors has no Activity row (and no stream or metric row
\* is left without its Activity row), no two errors name the same activity,
\* and when the sync has returned every entry of the page is either named in
\* errors or stored with its Derived Metric.
C11_FailedActivityRolledBack ==
    syncs = 1 =>
        /\ \A k \in DOMAIN syncErrors :
              syncErrors[k].scope = "activity" =>
                  /\ ~ \E r \in activities :
                          r.strava_activity_id = syncErrors[k].id
                  /\ \A j \in DOMAIN syncErrors :
                          syncErrors[j] = syncErrors[k] => j = k
        /\ \A x \in streams : \E r \in activities : r.id = x.activity_id
        /\ \A m \in metrics : \E r \in activities : r.id = m.activity_id
        /\ syncPc = "idle" =>
              \A i \in DOMAIN syncPage :
                  \/ \E k \in DOMAIN syncErrors :
                        syncErrors[k] = ActivityError(syncPage[i].id)
                  \/ \E r \in activities :
                        /\ r.strava_activity_id = syncPage[i].id
                        /\ \E m \in metrics : m.activity_id = r.id

\* The elements of a list
Elements(list) == {list[i] : i \in DOMAIN list}

\* The closed taxonomy of flags
FlagTaxonomy ==
    {"data_low_confidence_hr", "intensity_mismatch", "fatigue_possible",
     "pace_unstable", "load_spike", "illness_or_extreme_fatigue",
     "pain_reported", "pain_severe"}

\* C12: every stored Derived Metric row has flags that are a subset of the
\* closed taxonomy, whichever operation wrote the row.
C12_FlagsInTaxonomy == \A m \in metrics : Elements(m.flags) \subseteq FlagTaxonomy

\* C13: for every activity whose avg_hr is absent and that has a Derived
\* Metric, the metric's flags contain data_low_confidence_hr and its
\* confidence_reasons contain no_heart_rate_data, whether the manual sync or
\* the Processing Orchestrator wrote it.
C13_NoHeartRateMarked ==
    \A r \in activities : \A m \in metrics :
        (m.activity_id = r.id /\ r.avg_hr = {}) =>
            /\ "data_low_confidence_hr" \in Elements(m.flags)
            /\ "no_heart_rate_data" \in Elements(m.confidence_reasons)

\* The risk score the stored inputs of activity a give with the flags of
\* metric m: the table's points, 2 for poor sleep with a high RPE, 1 for two
\* or more hard sessions in the last 7 days with the last within 3 days.
ScoreOf(m, a) ==
    LET f == Elements(m.flags)
        hard == {r \in TrainingContextRows(activities, a) :
                    \E q \in metrics : q.activity_id = r.id
                                       /\ q.activity_class \in HARD_CLASSES}
    IN (IF "fatigue_possible" \in f THEN 1 ELSE 0)
       + (IF "pain_reported" \in f THEN 2 ELSE 0)
       + (IF "load_spike" \in f THEN 3 ELSE 0)
       + (IF "pain_severe" \in f THEN 4 ELSE 0)
       + (IF "illness_or_extreme_fatigue" \in f THEN 4 ELSE 0)
       + (IF \E c \in checkins : /\ c.activity_id = a.id
                                 /\ \E x \in c.sleep_quality : x <= 2
                                 /\ \E x \in c.rpe : x >= 8
          THEN 2 ELSE 0)
       + (IF Cardinality(hard) >= 2
             /\ \E r \in hard : a.start_date - r.start_date <= 3
          THEN 1 ELSE 0)

\* The step in which an intent or check-in request returns with 200: the
\* activity then has one Derived Metric row, computed from the inputs as the
\* request left them.  With every = TRUE the class is to be the request's
\* user_intent whatever it is; otherwise only a non-empty one, and an empty
\* one gives the class the rules give the activity.
Reprocessed(every) ==
    (apiPc = "store" /\ apiPc' = "idle" /\ apiResp' = 200) =>
        \E a \in activities : \E m \in metrics' :
            /\ a.id = apiAct
            /\ m.activity_id = a.id
            /\ \A q \in metrics' : q.activity_id = a.id => q = m
            /\ (apiReq.op = "intent" /\ (every \/ apiReq.user_intent # "")) =>
                  m.activity_class = apiReq.user_intent
            /\ (apiReq.op = "intent" /\ ~ every /\ apiReq.user_intent = "") =>
                  /\ a.user_intent = ""
                  /\ m.activity_class \in
                        {"Race", "Easy Run", "Easy Ride", "Long Run", "Hills"}
            /\ apiReq.op = "checkin" =>
                  \E c \in checkins :
                      /\ c.activity_id = a.id
                      /\ \A x \in apiReq.check_in.pain_score : c.pain_score = {x}
                      /\ "pain_reported" \in Elements(m.flags)
                            <=> \E x \in c.pain_score : x >= 4
                      /\ "pain_severe" \in Elements(m.flags)
                            <=> \E x \in c.pain_score : x >= 7
            /\ m.risk_score = {ScoreOf(m, a)}
            /\ m.risk_level = "red" <=> ScoreOf(m, a) >= 4
            /\ m.risk_level = "amber" <=> ScoreOf(m, a) \in {2, 3}
            /\ m.risk_level = "green" <=> ScoreOf(m, a) <= 1

\* C14 as stated: when PUT intent with value v or POST checkin returns
\* successfully, the Derived Metric has been recomputed: activity_class = v,
\* the flags contain pain_reported iff pain_score >= 4 and pain_severe iff
\* pain_score >= 7, and risk_score and risk_level are those of these flags.
C14_ReprocessedAnyValue == [][Reprocessed(TRUE)]_vars

\* C14, amended: the same, with activity_class = v for a non-empty v only; an
\* empty v clears the intent and the class is the one the rules give.
C14_Reprocessed == [][Reprocessed(FALSE)]_vars

\* An intent request and a check-in with pain_score 7 have returned with 200
\* for one activity: its metric has the class of the intent, both pain
\* flags and the red level.
C14_Witness ==
    /\ apiPc = "idle"
    /\ apiResp = 200
    /\ apiReq.op = "checkin"
    /\ apiReq.check_in.pain_score = {7}
    /\ \E m \in metrics :
          /\ m.activity_class = "Tempo"
          /\ {"pain_reported", "pain_severe"} \subseteq Elements(m.flags)
          /\ m.risk_level = "red"

\* The class process_activity stores for activity a when the request that
\* follows clears its user_intent: the handler's assignment, then the load
\* and the metrics_data of process_activity.
RevertedClass(a) ==
    LET acts == {IF r.id = a.id THEN [r EXCEPT !.user_intent = ""] ELSE r
                    : r \in activities'}
        b == CHOOSE r \in acts : r.id = a.id
    IN ProcessedMetric([activity |-> {b}, history |-> History(acts, b),
                        context |-> TrainingContextRows(acts, b),
                        streams |-> StreamsDict(streams', b.id),
                        check_in |-> {c \in checkins' : c.activity_id = b.id},
                        metrics |-> metrics']).activity_class

\* C15: for an activity with a Derived Metric and no user_intent, setting
\* user_intent to some class and then clearing it again leaves activity_class
\* equal to the class stored before the first change, whether run_analysis
\* (manual sync) or process_activity had stored it.
C15_RevertRestores ==
    [][\A a \in activities : \A m \in metrics :
          (/\ apiPc = "idle" /\ apiPc' = "process"
           /\ apiAct' = a.id
           /\ apiReq'.op = "intent" /\ apiReq'.user_intent # ""
           /\ Falsy(a.user_intent)
           /\ m.activity_id = a.id)
          => RevertedClass(a) = m.activity_class]_vars

\* The stored streams of activity id, as channel and data without the row id.
ChannelsOf(strs, id) ==
    {[stream_type |-> r.stream_type, data |-> r.data] :
        r \in {x \in strs : x.activity_id = id}}

\* What a call of fetch_and_store_streams for the activity with the primary
\* key id leaves in the streams table when the provider answers with response.
StreamsReplaced(response, id) ==
    /\ {r \in streams' : r.activity_id # id} = {r \in streams : r.activity_id # id}
    /\ IF response.status = "ok" /\ response.items # {}
       THEN LET new == {r \in streams' : r.activity_id = id} IN
              /\ ChannelsOf(streams', id) = response.items
              /\ \A r, q \in new : r.stream_type = q.stream_type => r = q
              /\ new \cap streams = {}
              /\ \A r \in new : \A q \in streams : r.id # q.id
       ELSE streams' = streams

\* C16: after fetch_and_store_streams succeeds for an activity, its stored
\* streams are exactly the channels of the latest response, one row per
\* channel and no row of an earlier fetch; when the fetch fails or returns
\* nothing (an error status, an empty object, an exception) the stored
\* streams are unchanged.  The streams of other activities are never touched.
C16_StreamsReplacedWholesale ==
    [][\A response \in StreamResponses :
          Sync_FetchStreams(response) => StreamsReplaced(response, SyncActivity.id)]_vars

\* The sync has fetched the streams of an activity a second time: the rows of
\* the first fetch are gone, the rows stored are those of the second.
C16_Witness ==
    /\ syncs = 2
    /\ syncPc = "analysis"
    /\ syncErrors = << >>
    /\ ChannelsOf(streams, SyncActivity.id)
          = {[stream_type |-> "heartrate", data |-> "steady"]}
    /\ Cardinality(streams) = 1
    /\ nextId > Cardinality(activities) + Cardinality(streams) + 1

\* C17: an HTTP 429 from a provider endpoint is surfaced to the caller as an
\* error, so that the calling sync step fails with it: when the stream
\* endpoint answers 429, the handling of the activity ends with an error
\* recorded for it and does not go on to the analysis.
C17_RateLimitSurfaced ==
    [][\A response \in StreamResponses :
          (response.status = "rate_limited" /\ Sync_FetchStreams(response))
          => /\ syncPc' # "analysis"
             /\ Len(syncErrors') = Len(syncErrors) + 1
             /\ syncErrors'[Len(syncErrors')] = ActivityError(syncPage[syncPos].id)]_vars

\* The class the rules give in their fixed order, an empty name matching no
\* keyword: user_intent; trainer with sport Ride or Run; zero-distance Ride
\* longer than 60 s; name keyword; Long Run; elevation gain per km; sport
\* fallback; Easy Run.
FirstMatchingRule(a, history) ==
    LET sport == SportType(a)
        kw == IF a.name \in {None, ""} THEN {} ELSE NameKeywords(a.name)
        times == {h \in history : h.moving_time_s > 0}
    IN IF a.user_intent \notin {None, ""} THEN a.user_intent
       ELSE IF a.raw_summary.trainer /\ sport = "Ride" THEN "Indoor Ride"
       ELSE IF a.raw_summary.trainer /\ sport = "Run" THEN "Treadmill"
       ELSE IF sport = "Ride" /\ a.distance_m = 0 /\ a.moving_time_s > 60
            THEN "Indoor Ride"
       ELSE IF "race" \in kw THEN "Race"
       ELSE IF "workout" \in kw \/ "interval" \in kw THEN "Intervals"
       ELSE IF "hill" \in kw THEN "Hills"
       ELSE IF "recovery" \in kw THEN "Recovery"
       ELSE IF /\ a.moving_time_s > 4500
               /\ \/ times = {}
                  \/ 10 * Cardinality(times) * a.moving_time_s
                        > 13 * SumMovingTime(times)
            THEN "Long Run"
       ELSE IF a.distance_m > 0 /\ a.elev_gain_m * 1000 > 20 * a.distance_m
            THEN "Hills"
       ELSE IF /\ a.distance_m > 0 /\ a.elev_gain_m * 1000 > 15 * a.distance_m
               /\ \E hr \in a.avg_hr : hr > 150
            THEN "Hills"
       ELSE IF sport = "Ride" THEN "Easy Ride"
       ELSE IF sport = "Walk" THEN "Leisure Walk"
       ELSE IF sport = "Swim" THEN "Endurance"
       ELSE IF sport \in {"Workout", "WeightTraining"} THEN "Strength"
       ELSE "Easy Run"

\* C18: classify_activity returns the result of the first matching rule in
\* the fixed order, for every activity, one with an empty name included;
\* moving_time_s = 4500 is not a Long Run, 4501 with no history is.
C18_FirstMatchingRule ==
    fnOut # {} => fnOut = {FirstMatchingRule(fnIn[1], fnIn[2])}

\* How often the flag occurs in the list.
Occurrences(flags, flag) == Cardinality({i \in DOMAIN flags : flags[i] = flag})

\* The score of the table: the points of the flags in the list (a flag counts
\* each time it occurs), 2 for sleep_quality <= 2 with rpe >= 8, 1 for
\* hard_sessions_this_week >= 2 with days_since_last_hard <= 3.
TableScore(flags, check_in, training_context) ==
    Occurrences(flags, "fatigue_possible")
    + 2 * Occurrences(flags, "pain_reported")
    + 3 * Occurrences(flags, "load_spike")
    + 4 * Occurrences(flags, "pain_severe")
    + 4 * Occurrences(flags, "illness_or_extreme_fatigue")
    + (IF \E c \in check_in : c.sleep_quality \in {{0}, {1}, {2}}
                              /\ \E rpe \in c.rpe : rpe >= 8
       THEN 2 ELSE 0)
    + (IF \E t \in training_context :
              t.hard_sessions_this_week >= 2
              /\ t.days_since_last_hard \in {{0}, {1}, {2}, {3}}
       THEN 1 ELSE 0)

\* C19: compute_risk_score returns risk_score equal to the sum of the table
\* points of the flags present (any other flag 0) plus 2 when sleep_quality
\* <= 2 and rpe >= 8, plus 1 when hard_sessions_this_week >= 2 and
\* days_since_last_hard <= 3; risk_level is red iff the score is >= 4, amber
\* iff it is 2 or 3, green iff it is <= 1.
C19_RiskScore ==
    \A out \in fnOut :
        LET score == TableScore(fnIn[1], fnIn[2], fnIn[3]) IN
        /\ out.risk_score = score
        /\ out.risk_level = "red" <=> score >= 4
        /\ out.risk_level = "amber" <=> score \in {2, 3}
        /\ out.risk_level = "green" <=> score <= 1

\* The three sources stack to exactly 4 points, the first red score: one
\* point from fatigue_possible, 2 from the check-in, 1 from the context.
C19_Witness ==
    /\ fnIn = << << "fatigue_possible" >>,
                 {[sleep_quality |-> {2}, rpe |-> {8}, pain_score |-> {}]},
                 {[hard_sessions_this_week |-> 2, days_since_last_hard |-> {3}]} >>
    /\ fnOut = {[risk_level |-> "red", risk_score |-> 4]}

\* The start of the range as resolved: today minus the days of the range
\* key; for ALL the date of the earliest activity not deleted, today when
\* there is none.
ResolvedStart(acts, range_key, today) ==
    LET live == {r.start_date : r \in {x \in acts : ~ x.is_deleted}} IN
    IF range_key = "7D" THEN today - 7
    ELSE IF range_key = "30D" THEN today - 30
    ELSE IF range_key = "3M" THEN today - 90
    ELSE IF range_key = "6M" THEN today - 180
    ELSE IF range_key = "1Y" THEN today - 365
    ELSE IF live = {} THEN today
    ELSE CHOOSE m \in live : \A d \in live : m <= d

\* C20: the weekly list is strictly ascending by week_start, consecutive
\* entries are exactly 7 days apart, every week_start is a Monday, the first
\* entry is the Monday of the week of the resolved range start and the last
\* the Monday of the current week, for every range key and every set of
\* stored activities, activities dated after today included.
C20_WeeklyContiguous ==
    \A weekly \in fnOut :
        /\ weekly # << >>
        /\ \A i \in 1..(Len(weekly) - 1) : weekly[i + 1] = weekly[i] + 7
        /\ \A i \in DOMAIN weekly : weekly[i] % 7 = 0
        /\ weekly[1] = ResolvedStart(fnIn[1], fnIn[2], fnIn[3])
                       - (ResolvedStart(fnIn[1], fnIn[2], fnIn[3]) % 7)
        /\ weekly[Len(weekly)] = fnIn[3] - (fnIn[3] % 7)

\* C21: normalize_cadence_spm returns 2 x c for every cadence c strictly
\* below 130 and c unchanged for every c >= 130, for every activity type
\* (Run, Walk, Ride, Hike and any other), and returns None for None.
C21_CadenceDoubledBelow130 ==
    \A out \in fnOut :
        /\ fnIn[2] = {} => out = {}
        /\ \A c \in fnIn[2] : out = {IF c < 130 THEN 2 * c ELSE c}

\* C22: POST /activities/{id}/checkin for an activity id that does not exist
\* answers 404 and creates no Check-In row.
C22_CheckinNotFound ==
    [][\A id \in 1..MaxActivity : \A body \in CheckInBodies :
          (CreateCheckin(id, body) /\ ~ \E r \in activities : r.id = id)
          => (apiResp' = 404 /\ checkins' = checkins)]_vars

\* The Derived Metric rows of the 7 activities of the history with the latest
\* start time.
MostRecentMetrics(history, history_metrics) ==
    LET latest == {history[i].id : i \in {j \in DOMAIN history : j <= 7}}
    IN {history_metrics[i] : i \in {j \in DOMAIN history_metrics :
                                       history_metrics[j].activity_id \in latest}}

RECURSIVE SumOfEfforts(_)
SumOfEfforts(S) ==
    IF S = {} THEN 0
    ELSE LET m == CHOOSE m \in S : TRUE IN m.effort_score + SumOfEfforts(S \ {m})

\* C23: generate_flags adds load_spike exactly when effort scores of prior
\* activities are available and the current effort_score is greater than 1.8
\* times the mean of the effort scores of the 7 most recent prior activities
\* (latest by start time) among the loaded history.
C23_LoadSpike ==
    \A flags \in fnOut :
        LET recent == MostRecentMetrics(fnIn[3], fnIn[5]) IN
        (\E i \in DOMAIN flags : flags[i] = "load_spike")
        <=> /\ recent # {}
            /\ fnIn[2].effort_score * 10 * Cardinality(recent) > 18 * SumOfEfforts(recent)

\* C24: generate_flags includes illness_or_extreme_fatigue exactly when a
\* check-in exists with rpe >= 8, sleep_quality <= 2 and pain_score >= 5, for
\* every sleep_quality value in 0..10 including 0.
C24_IllnessFlag ==
    \A flags \in fnOut :
        (\E i \in DOMAIN flags : flags[i] = "illness_or_extreme_fatigue")
        <=> \E c \in fnIn[4] :
                /\ \E rpe \in c.rpe : rpe >= 8
                /\ \E sleep_quality \in c.sleep_quality : sleep_quality <= 2
                /\ \E pain_score \in c.pain_score : pain_score >= 5

\* The codes of the critical set among the reasons.
CriticalCodes(reasons) ==
    {reasons[i] : i \in DOMAIN reasons}
    \cap {"no_heart_rate_data", "no_stream_data", "interval_structure_mismatch",
          "work_time_implausibly_high", "high_rep_distance_variability"}

\* C25: compute_confidence returns low when the reasons contain at least 2
\* codes of the critical set, otherwise medium when they contain exactly 1
\* critical code or at least 3 reasons in total, and high when there are no
\* reasons; high is returned only when the reason list is empty.
C25_ConfidenceLevel ==
    \A out \in fnOut :
        LET n == Cardinality(CriticalCodes(out.reasons)) IN
        /\ n >= 2 => out.level = "low"
        /\ (n = 1 \/ (n = 0 /\ Len(out.reasons) >= 3)) => out.level = "medium"
        /\ out.reasons = << >> => out.level = "high"
        /\ out.level = "high" => out.reasons = << >>

\* A complete recording with a check-in and a matched plan, whose interval
\* structure has no warm-up: the one reason is not critical and the level is
\* medium, not high.
C25_Witness ==
    \E out \in fnOut :
        /\ out.reasons = << "no_warmup_detected" >>
        /\ out.level = "medium"

\* C26: every non-null result of detect_intervals satisfies summary.rep_count
\* = number of work_segments >= 2 and summary.total_work_time_s = sum of the
\* work segments' duration_s.
C26_IntervalSummary ==
    \A out \in fnOut : \A result \in out :
        /\ result.summary.rep_count = Len(result.work_segments)
        /\ Len(result.work_segments) >= 2
        /\ result.summary.total_work_time_s
           = SumDurations(result.work_segments)

\* Work of 29 s, a rest of 15 s, work of 30 s, a transition and work of
\* 30 s: the stretch of 29 s does not count, two repetitions remain and
\* their time is 60 s.
C26_Witness ==
    /\ fnIn[1] = {LabelsOf(<< << 1, 29 >>, << -1, 15 >>, << 1, 30 >>, << 0, 15 >>,
                              << 1, 30 >> >>)}
    /\ \E out \in fnOut : \E result \in out :
          /\ result.summary.rep_count = 2
          /\ result.summary.total_work_time_s = 60
          /\ result.work_segments[1].start_time_s = 44

\* The effective type: user_intent when set, otherwise the provider type.
EffectiveType(f) ==
    IF f.user_intent \in {{}, {<< >>}} THEN f.type
    ELSE CHOOSE intent \in f.user_intent : TRUE

\* C27: in the trends report, an activity is kept by a type filter exactly
\* when the lowercase of its effective type (user_intent when set, otherwise
\* the provider type) is a member of the lowercase set of requested types.
C27_FilterByEffectiveType ==
    \A facts \in fnOut :
        \A types \in fnIn[2] :
            types # << >> =>
            \A f \in fnIn[1] :
                f \in facts
                <=> Lower(EffectiveType(f)) \in {Lower(types[i]) : i \in DOMAIN types}

\* The activity is an indoor ride or a walk: a ride on a trainer or without
\* distance, or of the sport Walk.
IndoorRideOrWalk(a) ==
    \/ SportType(a) = "Ride" /\ (a.raw_summary.trainer \/ a.distance_m = 0)
    \/ SportType(a) = "Walk"

\* C28: GET /activities/{id} changes stored state only by rewriting
\* activity_class of a Derived Metric whose stored class is 'Easy Run' on an
\* activity that is actually an indoor ride or a walk; for any other activity
\* (for example an outdoor run stored as 'Easy Run') a read leaves
\* activity_class and every other stored field unchanged.
C28_ReadRepairsOnlyIndoorRideOrWalk ==
    [][\A id \in 1..3 :
          ReadActivity(id) =>
              /\ UNCHANGED << activities, streams, checkins, account >>
              /\ \A m \in metrics :
                    \/ m \in metrics'
                    \/ /\ m.activity_id = id
                       /\ m.activity_class = "Easy Run"
                       /\ \E a \in activities : a.id = id /\ IndoorRideOrWalk(a)
                       /\ \E class \in {ClassifyActivity(a, {}) : a \in activities} :
                             [m EXCEPT !.activity_class = class] \in metrics'
              /\ Cardinality(metrics') = Cardinality(metrics)]_vars

\* Zones calibrated: the profile has max_hr > 100 together with a non-empty
\* max_hr_source.
ZonesCalibrated(profile) ==
    \E p \in profile : /\ \E n \in p.max_hr : n > 100
                       /\ ~ Falsy(p.max_hr_source)

\* C29: in the Derived Metric written by process_activity,
\* interval_kpis.total_z4_plus_s equals Z4 + Z5 exactly when zones are
\* calibrated, that is when the profile has max_hr > 100 together with a
\* non-empty max_hr_source, and time_in_zones is present; otherwise
\* total_z4_plus_s is null.
C29_TotalZ4Plus ==
    \A md \in fnOut : \A kpis \in md.interval_kpis :
        kpis.total_z4_plus_s =
            IF ZonesCalibrated(fnIn[1]) /\ md.time_in_zones # {}
            THEN {z.Z4 + z.Z5 : z \in md.time_in_zones}
            ELSE {}

\* C30: is_deleted is monotone: once a delete webhook has set is_deleted =
\* true on an activity, no later create/update webhook job, manual sync,
\* intent update, check-in upsert or re-processing sets it back to false; the
\* row stays and stays deleted.
C30_DeletedStaysDeleted ==
    [][\A r \in activities : r.is_deleted =>
          \E q \in activities' : q.id = r.id /\ q.is_deleted]_vars

\* The first activity is deleted; the update event that followed the delete
\* was served by a worker, which stored the changed document, and the intent
\* request, the check-in with its processing and a manual sync have been on
\* the row.
C30_Witness ==
    /\ resp = "processed:enqueued"
    /\ jobs[JobId(1, 1)].status = "finished"
    /\ syncs > 0
    /\ syncPc = "idle"
    /\ apiPc = "idle"
    /\ \E c \in checkins : c.activity_id = 1
    /\ \E m \in metrics : m.activity_id = 1
    /\ \E r \in activities : /\ r.id = 1
                             /\ r.is_deleted
                             /\ r.user_intent = "Tempo"
                             /\ r.raw_summary = DocumentOf(1, MaxVariant)

====
